---- MODULE Spec2Model ----
(***************************************************************************)
(* jminus: bytecode compiler (compiler.c), stack virtual machine (vm.c),   *)
(* scope store (environment.c) and tree-walking interpreter                *)
(* (interpreter.c).                                                        *)
(*                                                                         *)
(* Conventions.  C arrays are modelled as sequences; a C index k is the    *)
(* sequence position k + 1, and every operand, ip and target keeps its     *)
(* 0-based C value.  A lexeme is the sequence of its characters (digits    *)
(* for TOKEN_INT, one-character strings for TOKEN_IDENTIFIER).  All        *)
(* operand values are kept small enough that no int arithmetic overflows.  *)
(***************************************************************************)
EXTENDS Integers, Sequences, FiniteSets, TLC

(***************************************************************************)
(* Bounds of the model.                                                    *)
(***************************************************************************)
MaxRuns == 2
MaxSteps == 60
MaxOperand == 3
MaxFuel == 6

\* scopes in a chain built through environment.h
MaxDepth == 3

(***************************************************************************)
(* Program constants.                                                      *)
(***************************************************************************)
STACK_SIZE == 1024
ENV_CAPACITY == 128
INITIAL_CAPACITY == 128

(***************************************************************************)
(* Characters and their codes: (int)lexeme[0] and (char)var_id.            *)
(***************************************************************************)
Chars == {"a", "b", "f", "i", "o", "x", "y"}

Ascii == [c \in Chars |->
            CASE c = "a" -> 97  [] c = "b" -> 98  [] c = "f" -> 102
              [] c = "i" -> 105 [] c = "o" -> 111 [] c = "x" -> 120
              [] c = "y" -> 121]

CharCodes == {Ascii[c] : c \in Chars}

Chr(n) == CHOOSE c \in Chars : Ascii[c] = n

(***************************************************************************)
(* atoi on a TOKEN_INT lexeme (a non-empty run of decimal digits).         *)
(***************************************************************************)
RECURSIVE atoi(_)
atoi(lexeme) ==
    IF lexeme = <<>> THEN 0
    ELSE atoi(SubSeq(lexeme, 1, Len(lexeme) - 1)) * 10 + lexeme[Len(lexeme)]

(***************************************************************************)
(* AST nodes (parser.h).  NULL is the absent else branch.                  *)
(***************************************************************************)
NULL == [type |-> "NULL"]

Literal(lexeme) == [type |-> "EXPR_LITERAL", value |-> lexeme]
Variable(lexeme) == [type |-> "EXPR_VARIABLE", name |-> lexeme]
Binary(l, op, r) == [type |-> "EXPR_BINARY", left |-> l, op |-> op, right |-> r]
Call(callee) == [type |-> "EXPR_CALL", callee |-> callee]

LetStmt(lexeme, init) == [type |-> "STMT_LET", name |-> lexeme, initializer |-> init]
YapStmt(e) == [type |-> "STMT_YAP", expression |-> e]
ExprStmt(e) == [type |-> "STMT_EXPR", expression |-> e]
IfStmt(c, t, e) == [type |-> "STMT_IF", condition |-> c, then_branch |-> t, else_branch |-> e]
WhileStmt(c, b) == [type |-> "STMT_WHILE", condition |-> c, body |-> b]
BlockStmt(ss) == [type |-> "STMT_BLOCK", statements |-> ss]

(***************************************************************************)
(* Scope store (environment.c).  An Environment* is modelled as the chain  *)
(* it points to: a sequence of scopes, the pointed-to scope first and its  *)
(* parent chain after it; the NULL pointer is the empty chain.  A scope    *)
(* is its entries array cut at count.                                      *)
(***************************************************************************)
new_environment(parent) == << <<>> >> \o parent

\* mutant of FindEntry: the loop stops at `i > 0` and never looks at entries[0]
FindEntry_above_zero(scope, name) ==
    LET hits == {i \in 2..Len(scope) : scope[i].name = name}
    IN IF hits = {} THEN 0 ELSE CHOOSE i \in hits : \A j \in hits : j <= i

\* index (1-based) of the entry the downward loop `for (i = count-1; i >= 0; i--)`
\* stops at, 0 when the loop runs out
FindEntry(scope, name) ==
    LET hits == {i \in 1..Len(scope) : scope[i].name = name}
    IN IF hits = {} THEN 0 ELSE CHOOSE i \in hits : \A j \in hits : j <= i

\* mutant of define_var: the search for an existing entry is left out
define_var_appending(env, name, value) ==
    [env EXCEPT ![1] = Append(env[1], [name |-> name, value |-> value])]

define_var(env, name, value) ==
    LET scope == env[1]
        i == FindEntry(scope, name)
    IN IF i # 0
       THEN [env EXCEPT ![1][i].value = value]
       ELSE [env EXCEPT ![1] = Append(scope, [name |-> name, value |-> value])]

\* mutant of lookup_var: a name bound nowhere yields 0 instead of exit(1)
lookup_var_defaulting(env, name) ==
    LET levels == {k \in 1..Len(env) : FindEntry(env[k], name) # 0}
    IN IF levels = {} THEN [found |-> TRUE, value |-> 0]
       ELSE LET k == CHOOSE n \in levels : \A m \in levels : n <= m
            IN [found |-> TRUE, value |-> env[k][FindEntry(env[k], name)].value]

\* lookup_var: [found, value]; found = FALSE is the exit(1) path
RECURSIVE lookup_var(_, _)
lookup_var(env, name) ==
    LET i == FindEntry(env[1], name)
    IN IF i # 0 THEN [found |-> TRUE, value |-> env[1][i].value]
       ELSE IF Len(env) > 1 THEN lookup_var(Tail(env), name)
       ELSE [found |-> FALSE, value |-> 0]

\* mutant of assign_var: a name missing from the scope itself is bound there
\* instead of being looked for in the parent
assign_var_local(env, name, value) ==
    LET i == FindEntry(env[1], name)
    IN IF i # 0 THEN [found |-> TRUE, env |-> [env EXCEPT ![1][i].value = value]]
       ELSE [found |-> TRUE,
             env |-> [env EXCEPT ![1] = Append(env[1], [name |-> name, value |-> value])]]

\* assign_var: [found, env]; found = FALSE is the exit(1) path
RECURSIVE assign_var(_, _, _)
assign_var(env, name, value) ==
    LET i == FindEntry(env[1], name)
    IN IF i # 0 THEN [found |-> TRUE, env |-> [env EXCEPT ![1][i].value = value]]
       ELSE IF Len(env) > 1
            THEN LET r == assign_var(Tail(env), name, value)
                 IN [found |-> r.found, env |-> <<env[1]>> \o r.env]
       ELSE [found |-> FALSE, env |-> env]

(***************************************************************************)
(* Bytecode compiler (compiler.c).  The static `bytecode` is threaded      *)
(* through the operators; exited = TRUE records that exit(1) was called.   *)
(***************************************************************************)
NewBytecode ==
    [instructions |-> <<>>, capacity |-> INITIAL_CAPACITY,
     constants |-> <<>>, const_capacity |-> INITIAL_CAPACITY,
     exited |-> FALSE, log |-> <<>>]

\* emit; log keeps, for every write to the instructions and to the constants,
\* the index written, what was written and bytecode->const_count at that moment
emit(bc, opcode, operand) ==
    [bc EXCEPT
       !.capacity = IF Len(bc.instructions) >= bc.capacity THEN 2 * bc.capacity ELSE @,
       !.instructions = Append(@, [opcode |-> opcode, operand |-> operand]),
       !.log = Append(@, [event |-> "emit", index |-> Len(bc.instructions),
                          opcode |-> opcode, operand |-> operand,
                          const_count |-> Len(bc.constants)])]

\* mutant of add_constant: `return ++bytecode->const_count;`
add_constant_preincrement(bc, value) ==
    [bc |-> [bc EXCEPT
               !.const_capacity = IF Len(bc.constants) >= bc.const_capacity
                                  THEN 2 * bc.const_capacity ELSE @,
               !.constants = Append(@, value),
               !.log = Append(@, [event |-> "constant", index |-> Len(bc.constants),
                                  opcode |-> "", operand |-> value,
                                  const_count |-> Len(bc.constants) + 1])],
     idx |-> Len(bc.constants) + 1]

\* add_constant: the bytecode after the append, and the returned index
add_constant(bc, value) ==
    [bc |-> [bc EXCEPT
               !.const_capacity = IF Len(bc.constants) >= bc.const_capacity
                                  THEN 2 * bc.const_capacity ELSE @,
               !.constants = Append(@, value),
               !.log = Append(@, [event |-> "constant", index |-> Len(bc.constants),
                                  opcode |-> "", operand |-> value,
                                  const_count |-> Len(bc.constants) + 1])],
     idx |-> Len(bc.constants)]

\* mutant of patch_operand: the target is one past bytecode->count
patch_operand_late(bc, index) ==
    [bc EXCEPT !.instructions[index + 1].operand = Len(bc.instructions) + 1]

\* bytecode->instructions[index].operand = bytecode->count
patch_operand(bc, index) ==
    [bc EXCEPT
       !.instructions[index + 1].operand = Len(bc.instructions),
       !.log = Append(@, [event |-> "patch", index |-> index,
                          opcode |-> bc.instructions[index + 1].opcode,
                          operand |-> Len(bc.instructions),
                          const_count |-> Len(bc.constants)])]

\* the strcmp chain of compile_expr; "" is the final else branch
binary_opcode(op) ==
    CASE op = "+"  -> "BC_ADD"
      [] op = "-"  -> "BC_SUB"
      [] op = "*"  -> "BC_MUL"
      [] op = "/"  -> "BC_DIV"
      [] op = "==" -> "BC_EQUAL"
      [] op = "!=" -> "BC_NOT_EQUAL"
      [] op = "<"  -> "BC_LESS"
      [] op = "<=" -> "BC_LESS_EQUAL"
      [] op = ">"  -> "BC_GREATER"
      [] op = ">=" -> "BC_GREATER_EQUAL"
      [] OTHER     -> ""

\* mutant of var_id_of: the last character of the lexeme is taken
var_id_of_last(lexeme) == Ascii[lexeme[Len(lexeme)]]

\* int var_id = lexeme[0]
var_id_of(lexeme) == Ascii[lexeme[1]]

\* mutant of literal_constant: a value already in the pool gets the slot it has
literal_constant_sharing(bc, lexeme) ==
    LET slots == {i \in 1..Len(bc.constants) : bc.constants[i] = atoi(lexeme)}
    IN IF slots = {} THEN add_constant(bc, atoi(lexeme))
       ELSE [bc |-> bc, idx |-> (CHOOSE i \in slots : TRUE) - 1]

\* case EXPR_LITERAL: value = atoi(lexeme); idx = add_constant(value)
literal_constant(bc, lexeme) == add_constant(bc, atoi(lexeme))

\* mutant of compile_literal: the instruction is emitted with the index the
\* constant is going to get, and the constant is added after it
compile_literal_emit_first(bc, expr) ==
    literal_constant(emit(bc, "BC_CONST", Len(bc.constants)), expr.value).bc

\* case EXPR_LITERAL
compile_literal(bc, expr) ==
    LET r == literal_constant(bc, expr.value)
    IN emit(r.bc, "BC_CONST", r.idx)

compile_variable(bc, expr) == emit(bc, "BC_LOAD_VAR", var_id_of(expr.name))

\* mutant of emit_assignment: the target is loaded before it is stored, as
\* the left operand of a generic operator would be
emit_assignment_loading(bc, target) ==
    emit(emit(bc, "BC_LOAD_VAR", var_id_of(target.name)),
         "BC_SET_VAR", var_id_of(target.name))

\* the assignment after its right-hand side: emit(BC_SET_VAR, var_id)
emit_assignment(bc, target) == emit(bc, "BC_SET_VAR", var_id_of(target.name))

\* mutant of emit_binary_op: an unknown operator is passed over
emit_binary_op_lenient(bc, op) ==
    IF binary_opcode(op) = "" THEN bc
    ELSE emit(bc, binary_opcode(op), 0)

emit_binary_op(bc, op) ==
    IF binary_opcode(op) = "" THEN [bc EXCEPT !.exited = TRUE]
    ELSE emit(bc, binary_opcode(op), 0)

RECURSIVE compile_expr(_, _)
compile_expr(bc, expr) ==
    IF bc.exited THEN bc
    ELSE CASE expr.type = "EXPR_LITERAL" -> compile_literal(bc, expr)
           [] expr.type = "EXPR_VARIABLE" -> compile_variable(bc, expr)
           [] expr.type = "EXPR_BINARY" ->
                IF expr.op = "="
                THEN IF expr.left.type # "EXPR_VARIABLE"
                     THEN [bc EXCEPT !.exited = TRUE]
                     ELSE LET b1 == compile_expr(bc, expr.right)
                          IN IF b1.exited THEN b1 ELSE emit_assignment(b1, expr.left)
                ELSE LET b1 == compile_expr(bc, expr.left)
                         b2 == compile_expr(b1, expr.right)
                     IN IF b2.exited THEN b2 ELSE emit_binary_op(b2, expr.op)
           [] OTHER -> [bc EXCEPT !.exited = TRUE]

\* STMT_LET after its initializer: emit(BC_SET_VAR, var_id)
emit_let(bc, stmt) == emit(bc, "BC_SET_VAR", var_id_of(stmt.name))

emit_print(bc) == emit(bc, "BC_PRINT", 0)

\* mutant of emit_halt: the final emit is forgotten
emit_halt_forgotten(bc) == bc

emit_halt(bc) == emit(bc, "BC_HALT", 0)

\* mutant of emit_loop_jump: the loop start is taken after the first
\* instruction of the condition
emit_loop_jump_late(bc, loop_start) == emit(bc, "BC_JUMP", loop_start + 1)

\* STMT_WHILE after its body: emit(BC_JUMP, loop_start)
emit_loop_jump(bc, loop_start) == emit(bc, "BC_JUMP", loop_start)

\* mutant of begin_else: the conditional jump is patched before the
\* BC_JUMP placeholder is emitted
begin_else_patch_first(bc, jump_if_false) ==
    emit(patch_operand(bc, jump_if_false), "BC_JUMP", 0)

\* STMT_IF with an else, after the then-branch: emit(BC_JUMP, 0), then the
\* conditional jump is patched to bytecode->count
begin_else(bc, jump_if_false) ==
    patch_operand(emit(bc, "BC_JUMP", 0), jump_if_false)

\* mutant of end_if: the placeholder is left as it was emitted
end_if_unpatched(bc, jump_if_false) == bc

\* STMT_IF without an else, after the then-branch: the conditional jump is
\* patched to bytecode->count
end_if(bc, jump_if_false) == patch_operand(bc, jump_if_false)

\* mutant of close_loop: the conditional jump is patched before the closing
\* BC_JUMP is emitted
close_loop_patch_first(bc, loop_start, jump_out) ==
    emit_loop_jump(patch_operand(bc, jump_out), loop_start)

\* STMT_WHILE after its body: the closing BC_JUMP, then the conditional jump
\* is patched to bytecode->count
close_loop(bc, loop_start, jump_out) ==
    patch_operand(emit_loop_jump(bc, loop_start), jump_out)

RECURSIVE compile_stmt(_, _)
RECURSIVE compile_stmts(_, _, _)

\* the loops `for (i = 0; i < count; i++) compile_stmt(statements[i])`
compile_stmts(bc, statements, i) ==
    IF bc.exited \/ i > Len(statements) THEN bc
    ELSE compile_stmts(compile_stmt(bc, statements[i]), statements, i + 1)

compile_stmt(bc, stmt) ==
    IF bc.exited THEN bc
    ELSE CASE stmt.type = "STMT_LET" ->
                LET b1 == compile_expr(bc, stmt.initializer)
                IN IF b1.exited THEN b1 ELSE emit_let(b1, stmt)
           [] stmt.type = "STMT_YAP" ->
                LET b1 == compile_expr(bc, stmt.expression)
                IN IF b1.exited THEN b1 ELSE emit_print(b1)
           [] stmt.type = "STMT_EXPR" -> compile_expr(bc, stmt.expression)
           [] stmt.type = "STMT_IF" ->
                LET b1 == compile_expr(bc, stmt.condition)
                    jump_if_false == Len(b1.instructions)
                    b2 == emit(b1, "BC_JUMP_IF_FALSE", 0)
                    b3 == compile_stmt(b2, stmt.then_branch)
                IN IF b1.exited THEN b1
                   ELSE IF b3.exited THEN b3
                   ELSE IF stmt.else_branch.type # "NULL"
                   THEN LET jump_end == Len(b3.instructions)
                            b5 == begin_else(b3, jump_if_false)
                            b6 == compile_stmt(b5, stmt.else_branch)
                        IN IF b6.exited THEN b6 ELSE patch_operand(b6, jump_end)
                   ELSE end_if(b3, jump_if_false)
           [] stmt.type = "STMT_WHILE" ->
                LET loop_start == Len(bc.instructions)
                    b1 == compile_expr(bc, stmt.condition)
                    jump_out == Len(b1.instructions)
                    b2 == emit(b1, "BC_JUMP_IF_FALSE", 0)
                    b3 == compile_stmt(b2, stmt.body)
                IN IF b1.exited THEN b1
                   ELSE IF b3.exited THEN b3
                   ELSE close_loop(b3, loop_start, jump_out)
           [] stmt.type = "STMT_BLOCK" -> compile_stmts(bc, stmt.statements, 1)
           [] OTHER -> [bc EXCEPT !.exited = TRUE]

\* mutant of compile: a pass over the finished program writes the operand of
\* every conditional jump again
RECURSIVE resolve_jumps(_, _)
resolve_jumps(bc, k) ==
    IF k > Len(bc.instructions) THEN bc
    ELSE IF bc.instructions[k].opcode = "BC_JUMP_IF_FALSE"
         THEN resolve_jumps(patch_operand(bc, k - 1), k + 1)
         ELSE resolve_jumps(bc, k + 1)

compile_with_resolution_pass(stmts) ==
    LET b1 == compile_stmts(NewBytecode, stmts, 1)
    IN IF b1.exited THEN b1 ELSE resolve_jumps(emit_halt(b1), 1)

compile(stmts) ==
    LET b1 == compile_stmts(NewBytecode, stmts, 1)
    IN IF b1.exited THEN b1 ELSE emit_halt(b1)

(***************************************************************************)
(* Tree-walking interpreter (interpreter.c).  The static global_env is     *)
(* threaded through; status is "ok", "exited" (exit(1)), "undefined"       *)
(* (integer division by zero) or "fuel" (loop cut by MaxFuel).             *)
(***************************************************************************)
\* C integer division, truncating toward zero (b # 0)
TruncDiv(a, b) ==
    LET q == (IF a < 0 THEN -a ELSE a) \div (IF b < 0 THEN -b ELSE b)
    IN IF (a < 0) # (b < 0) THEN -q ELSE q

Bool(p) == IF p THEN 1 ELSE 0

\* `if (!global_env) global_env = new_environment(NULL);`
EnsureEnv(env) == IF env = <<>> THEN new_environment(<<>>) ELSE env

lookup_variable(global_env, name) == lookup_var(EnsureEnv(global_env), name)

assign_variable(global_env, name, value) == assign_var(EnsureEnv(global_env), name, value)

define_variable(global_env, name, value) == define_var(EnsureEnv(global_env), name, value)

\* the strcmp chain of eval_expr
eval_binary(op, left, right) ==
    CASE op = "+"  -> [status |-> "ok", value |-> left + right]
      [] op = "-"  -> [status |-> "ok", value |-> left - right]
      [] op = "*"  -> [status |-> "ok", value |-> left * right]
      [] op = "/"  -> IF right = 0 THEN [status |-> "undefined", value |-> 0]
                      ELSE [status |-> "ok", value |-> TruncDiv(left, right)]
      [] op = "==" -> [status |-> "ok", value |-> Bool(left = right)]
      [] op = "!=" -> [status |-> "ok", value |-> Bool(left # right)]
      [] op = "<"  -> [status |-> "ok", value |-> Bool(left < right)]
      [] op = "<=" -> [status |-> "ok", value |-> Bool(left <= right)]
      [] op = ">"  -> [status |-> "ok", value |-> Bool(left > right)]
      [] op = ">=" -> [status |-> "ok", value |-> Bool(left >= right)]
      [] OTHER     -> [status |-> "exited", value |-> 0]

RECURSIVE eval_expr(_, _)
eval_expr(global_env, expr) ==
    CASE expr.type = "EXPR_LITERAL" -> [status |-> "ok", value |-> atoi(expr.value)]
      [] expr.type = "EXPR_VARIABLE" ->
           LET r == lookup_variable(global_env, expr.name)
           IN IF r.found THEN [status |-> "ok", value |-> r.value]
              ELSE [status |-> "exited", value |-> 0]
      [] expr.type = "EXPR_BINARY" ->
           LET left == eval_expr(global_env, expr.left)
               right == eval_expr(global_env, expr.right)
           IN IF left.status # "ok" THEN left
              ELSE IF right.status # "ok" THEN right
              ELSE eval_binary(expr.op, left.value, right.value)
      [] OTHER -> [status |-> "exited", value |-> 0]

RECURSIVE exec_stmt(_, _, _)
RECURSIVE exec_stmts(_, _, _, _)
RECURSIVE exec_while(_, _, _)

\* the loops `for (i = 0; i < count; i++) exec_stmt(statements[i])`
exec_stmts(st, statements, i, fuel) ==
    IF st.status # "ok" \/ i > Len(statements) THEN st
    ELSE exec_stmts(exec_stmt(st, statements[i], fuel), statements, i + 1, fuel)

\* `while (eval_expr(condition)) exec_stmt(body);`
exec_while(st, stmt, fuel) ==
    LET c == eval_expr(st.env, stmt.condition)
    IN IF st.status # "ok" THEN st
       ELSE IF c.status # "ok" THEN [st EXCEPT !.status = c.status]
       ELSE IF c.value = 0 THEN st
       ELSE IF fuel = 0 THEN [st EXCEPT !.status = "fuel"]
       ELSE exec_while(exec_stmt(st, stmt.body, fuel), stmt, fuel - 1)

exec_stmt(st, stmt, fuel) ==
    IF st.status # "ok" \/ stmt.type = "NULL" THEN st
    ELSE CASE stmt.type = "STMT_LET" ->
                LET v == eval_expr(st.env, stmt.initializer)
                IN IF v.status # "ok" THEN [st EXCEPT !.status = v.status]
                   ELSE [st EXCEPT !.env = define_variable(st.env, stmt.name, v.value)]
           [] stmt.type = "STMT_YAP" ->
                LET v == eval_expr(st.env, stmt.expression)
                IN IF v.status # "ok" THEN [st EXCEPT !.status = v.status]
                   ELSE [st EXCEPT !.out = Append(@, v.value)]
           [] stmt.type = "STMT_EXPR" ->
                LET expr == stmt.expression
                IN IF expr.type = "EXPR_BINARY" /\ expr.op = "="
                      /\ expr.left.type = "EXPR_VARIABLE"
                   THEN LET v == eval_expr(st.env, expr.right)
                            r == assign_variable(st.env, expr.left.name, v.value)
                        IN IF v.status # "ok" THEN [st EXCEPT !.status = v.status]
                           ELSE IF ~r.found THEN [st EXCEPT !.status = "exited"]
                           ELSE [st EXCEPT !.env = r.env]
                   ELSE LET v == eval_expr(st.env, expr)
                        IN IF v.status # "ok" THEN [st EXCEPT !.status = v.status]
                           ELSE st
           [] stmt.type = "STMT_IF" ->
                LET c == eval_expr(st.env, stmt.condition)
                IN IF c.status # "ok" THEN [st EXCEPT !.status = c.status]
                   ELSE IF c.value # 0 THEN exec_stmt(st, stmt.then_branch, fuel)
                   ELSE IF stmt.else_branch.type # "NULL"
                        THEN exec_stmt(st, stmt.else_branch, fuel)
                   ELSE st
           [] stmt.type = "STMT_WHILE" -> exec_while(st, stmt, fuel)
           [] stmt.type = "STMT_BLOCK" -> exec_stmts(st, stmt.statements, 1, fuel)
           [] OTHER -> st

\* interpret from the given global_env; out collects the values of the
\* "Yap output" lines
interpret(global_env, stmts) ==
    exec_stmts([env |-> global_env, out |-> <<>>, status |-> "ok"], stmts, 1, MaxFuel)

(***************************************************************************)
(* Source programs given to compile.                                       *)
(***************************************************************************)
X == <<"x">>
I == <<"i">>
Foo == <<"f", "o", "o">>
Fab == <<"f", "a", "b">>

Num(n) == Literal(<<n>>)

BinaryOps == {"+", "-", "*", "/", "==", "!=", "<", "<=", ">", ">="}

\* lexemes of integer literals
LitLexemes == {<<d>> : d \in 0..MaxOperand} \cup {<<1, 0>>, <<4, 2>>, <<0, 7>>, <<9, 9>>}

\* yap(n);
PrintLit(lexeme) == <<YapStmt(Literal(lexeme))>>

\* yap(a op b);
PrintBin(op, a, b) == <<YapStmt(Binary(Num(a), op, Num(b)))>>

\* conditions of the if programs: literals, a negative value, comparisons
IfConds == {Num(0), Num(1), Num(2), Binary(Num(0), "-", Num(1)),
            Binary(Num(1), "==", Num(1)), Binary(Num(1), "==", Num(2))}

\* if (c) { yap(10); } [else { yap(20); }] yap(30);
IfProg(c, hasElse) ==
    <<IfStmt(c, BlockStmt(<<YapStmt(Literal(<<1, 0>>))>>),
             IF hasElse THEN BlockStmt(<<YapStmt(Literal(<<2, 0>>))>>) ELSE NULL),
      YapStmt(Literal(<<3, 0>>))>>

Increment(v) == ExprStmt(Binary(Variable(v), "=", Binary(Variable(v), "+", Num(1))))

\* while (i < k) { yap(i); i = i + 1; }
WhileLoop(k) ==
    WhileStmt(Binary(Variable(I), "<", Num(k)),
              BlockStmt(<<YapStmt(Variable(I)), Increment(I)>>))

\* while (i < k) { yap(i); i = i + 1; } yap(99);
WhileProg(k) == <<WhileLoop(k), YapStmt(Literal(<<9, 9>>))>>

\* let x = 5; x = x + 3; yap(x);
LetAssignPrint ==
    <<LetStmt(X, Num(5)),
      ExprStmt(Binary(Variable(X), "=", Binary(Variable(X), "+", Num(3)))),
      YapStmt(Variable(X))>>

\* let x = 42;
LetOnly == <<LetStmt(X, Literal(<<4, 2>>))>>

\* let x = 1; x = 99;
LetThenAssign == <<LetStmt(X, Num(1)), ExprStmt(Binary(Variable(X), "=", Literal(<<9, 9>>)))>>

\* if (1 == 1) { yap(10); } else { yap(20); }
IfScenario ==
    <<IfStmt(Binary(Num(1), "==", Num(1)),
             BlockStmt(<<YapStmt(Literal(<<1, 0>>))>>),
             BlockStmt(<<YapStmt(Literal(<<2, 0>>))>>))>>

\* let i = 0; while (i < 3) { yap(i); i = i + 1; }
LetWhile == <<LetStmt(I, Num(0)), WhileLoop(3)>>

\* while (1) { 1; }
LoopForever == <<WhileStmt(Num(1), BlockStmt(<<ExprStmt(Num(1))>>))>>

\* while (1) { 1; 1; 1; 1; 1; 1; 1; 1; }
LoopPushing ==
    <<WhileStmt(Num(1), BlockStmt([k \in 1..8 |-> ExprStmt(Num(1))]))>>

\* while (x < 1) { while (i < 1) { i = i + 1; } x = x + 1; }
NestedLoops ==
    <<WhileStmt(Binary(Variable(X), "<", Num(1)),
                BlockStmt(<<WhileStmt(Binary(Variable(I), "<", Num(1)),
                                      BlockStmt(<<Increment(I)>>)),
                            Increment(X)>>))>>

\* if (1) { if (0) yap(1); else yap(2); } else { if (1) yap(3); } yap(4);
NestedIfs ==
    <<IfStmt(Num(1),
             BlockStmt(<<IfStmt(Num(0), YapStmt(Num(1)), YapStmt(Num(2)))>>),
             BlockStmt(<<IfStmt(Num(1), YapStmt(Num(3)), NULL)>>)),
      YapStmt(Num(4))>>

\* { let x = 2; } yap(x);
BlockLet == <<BlockStmt(<<LetStmt(X, Num(2))>>), YapStmt(Variable(X))>>

\* { x = 2; { x = x + 1; } } yap(x);
BlockAssign ==
    <<BlockStmt(<<ExprStmt(Binary(Variable(X), "=", Num(2))),
                  BlockStmt(<<Increment(X)>>)>>),
      YapStmt(Variable(X))>>

\* foo = 7; yap(fab);
FooFab == <<ExprStmt(Binary(Variable(Foo), "=", Num(7))), YapStmt(Variable(Fab))>>

\* v = e;
AssignProg(v, e) == <<ExprStmt(Binary(Variable(v), "=", e))>>

AssignProgs ==
    {AssignProg(X, Num(2)), AssignProg(I, Binary(Num(1), "+", Num(2))),
     AssignProg(X, Binary(Variable(I), "*", Num(2))),
     AssignProg(X, Binary(Variable(X), "+", Num(3)))}

Scenarios ==
    { <<>>, LoopForever, NestedLoops, NestedIfs, BlockLet, BlockAssign, FooFab,
      LetAssignPrint, LetOnly, LetThenAssign, IfScenario, LetWhile,
      \* x = x + 3; yap(x);
      <<ExprStmt(Binary(Variable(X), "=", Binary(Variable(X), "+", Num(3)))),
        YapStmt(Variable(X))>>,
      \* yap(x = 5);
      <<YapStmt(Binary(Variable(X), "=", Num(5)))>>,
      \* 1 + 2;
      <<ExprStmt(Binary(Num(1), "+", Num(2)))>>,
      \* while (0) yap(1);
      <<WhileStmt(Num(0), YapStmt(Num(1)))>>,
      \* yap(x);
      <<YapStmt(Variable(X))>>,
      \* if (x) { while (i < 1) { i = i + 1; } } else yap(i);
      <<IfStmt(Variable(X), BlockStmt(<<WhileStmt(Binary(Variable(I), "<", Num(1)),
                                                   BlockStmt(<<Increment(I)>>))>>),
               YapStmt(Variable(I)))>>,
      \* while (x < 2) { if (x == 1) yap(x); x = x + 1; }
      <<WhileStmt(Binary(Variable(X), "<", Num(2)),
                  BlockStmt(<<IfStmt(Binary(Variable(X), "==", Num(1)),
                                     YapStmt(Variable(X)), NULL),
                              Increment(X)>>))>> }

\* a statement whose tag is none of StmtType
UnknownStmt == [type |-> "STMT_UNKNOWN"]

\* trees the parser never builds, handed to compile by a caller
MalformedTrees ==
    { \* yap(1); yap(1 % 2);
      <<YapStmt(Num(1)), YapStmt(Binary(Num(1), "%", Num(2)))>>,
      \* 1 = 2;
      <<ExprStmt(Binary(Num(1), "=", Num(2)))>>,
      \* yap(x + foo());
      <<YapStmt(Binary(Variable(X), "+", Call(Variable(Foo))))>>,
      \* yap(1); followed by a statement of unknown type
      <<YapStmt(Num(1)), UnknownStmt>>,
      \* if (1) { yap(1 % 2); } else yap(3);
      <<IfStmt(Num(1), BlockStmt(<<YapStmt(Binary(Num(1), "%", Num(2)))>>),
               YapStmt(Num(3)))>>,
      \* while (1 = 2) { yap(1); }
      <<WhileStmt(Binary(Num(1), "=", Num(2)), BlockStmt(<<YapStmt(Num(1))>>))>>,
      \* let x = foo();
      <<LetStmt(X, Call(Variable(Foo)))>> }

Programs ==
    {PrintLit(l) : l \in LitLexemes}
    \cup {PrintBin(op, a, b) : op \in BinaryOps, a \in 0..MaxOperand, b \in 0..MaxOperand}
    \cup {IfProg(c, e) : c \in IfConds, e \in BOOLEAN}
    \cup {WhileProg(k) : k \in 0..MaxOperand}
    \cup AssignProgs
    \cup Scenarios

(***************************************************************************)
(* Bytecode built by hand and given to run (tests/vm_tests.c).             *)
(***************************************************************************)
Instr(opcode, operand) == [opcode |-> opcode, operand |-> operand]

HandBytecode(instructions, constants) ==
    [instructions |-> instructions, capacity |-> Len(instructions),
     constants |-> constants, const_capacity |-> Len(constants),
     exited |-> FALSE, log |-> <<>>]

\* Test 1: Arithmetic and print
VmTest1 ==
    HandBytecode(<<Instr("BC_CONST", 0), Instr("BC_CONST", 1), Instr("BC_ADD", 0),
                   Instr("BC_PRINT", 0), Instr("BC_HALT", 0)>>, <<7, 3>>)

\* Test 2: Variable definition and assignment
VmTest2 ==
    HandBytecode(<<Instr("BC_CONST", 0), Instr("BC_DEFINE_VAR", Ascii["x"]),
                   Instr("BC_CONST", 1), Instr("BC_SET_VAR", Ascii["x"]),
                   Instr("BC_LOAD_VAR", Ascii["x"]), Instr("BC_PRINT", 0),
                   Instr("BC_HALT", 0)>>, <<5, 9>>)

\* Test 3: If-statement (simulated)
VmTest3 ==
    HandBytecode(<<Instr("BC_CONST", 0), Instr("BC_JUMP_IF_FALSE", 5),
                   Instr("BC_CONST", 1), Instr("BC_PRINT", 0), Instr("BC_JUMP", 6),
                   Instr("BC_HALT", 0), Instr("BC_HALT", 0)>>, <<1, 42>>)

\* CONST 0; DEFINE_VAR c; HALT with constant pool <<v>>
DefineProg(c, v) ==
    HandBytecode(<<Instr("BC_CONST", 0), Instr("BC_DEFINE_VAR", Ascii[c]),
                   Instr("BC_HALT", 0)>>, <<v>>)

HandPrograms ==
    {VmTest1, VmTest2, VmTest3}
    \cup {DefineProg(c, v) : c \in {"x", "i", "f"}, v \in {0, 1}}
    \cup { \* opcodes that run does not handle
           HandBytecode(<<Instr("BC_LOAD_CONST", 0), Instr("BC_PRINT", 0),
                          Instr("BC_HALT", 0)>>, <<7>>),
           HandBytecode(<<Instr("BC_CONST", 0), Instr("BC_STORE_VAR", Ascii["x"]),
                          Instr("BC_HALT", 0)>>, <<7>>),
           HandBytecode(<<Instr("BC_CONST", 0), Instr("BC_POP", 0),
                          Instr("BC_HALT", 0)>>, <<7>>),
           \* two names defined in one run
           HandBytecode(<<Instr("BC_CONST", 0), Instr("BC_DEFINE_VAR", Ascii["x"]),
                          Instr("BC_CONST", 1), Instr("BC_DEFINE_VAR", Ascii["i"]),
                          Instr("BC_HALT", 0)>>, <<1, 2>>),
           \* instructions after a BC_HALT
           HandBytecode(<<Instr("BC_CONST", 0), Instr("BC_PRINT", 0),
                          Instr("BC_HALT", 0), Instr("BC_CONST", 0),
                          Instr("BC_DEFINE_VAR", Ascii["x"]), Instr("BC_PRINT", 0),
                          Instr("BC_HALT", 0)>>, <<7>>),
           \* a jump past the end of the instructions
           HandBytecode(<<Instr("BC_JUMP", 5), Instr("BC_HALT", 0)>>, <<>>),
           \* a pop from the empty stack
           HandBytecode(<<Instr("BC_PRINT", 0), Instr("BC_HALT", 0)>>, <<>>),
           \* SET_VAR, DEFINE_VAR of the same name, then a division by zero
           HandBytecode(<<Instr("BC_CONST", 0), Instr("BC_DEFINE_VAR", Ascii["y"]),
                          Instr("BC_CONST", 1), Instr("BC_DEFINE_VAR", Ascii["y"]),
                          Instr("BC_LOAD_VAR", Ascii["y"]), Instr("BC_CONST", 0),
                          Instr("BC_CONST", 2), Instr("BC_DIV", 0),
                          Instr("BC_PRINT", 0), Instr("BC_HALT", 0)>>, <<1, 2, 0>>) }

(***************************************************************************)
(* Virtual machine (vm.c).                                                 *)
(*   stmts, origin : the statements compiled ("compiled"), or none ("hand")*)
(*   bytecode      : the Bytecode under execution                          *)
(*   ip            : the local ip of run                                   *)
(*   sp, stack     : the statics; stack holds the cells 0 .. sp-1          *)
(*   vm_env        : the static Environment*, <<>> while NULL              *)
(*   status        : "idle", "compiled", "running", "halted" (run          *)
(*                   returned), "exited" (exit(1)), "crashed"              *)
(*   err           : the message written to stderr before exit(1)          *)
(*   ub            : an access outside an array, or a division by zero,    *)
(*                   has happened in this run                              *)
(*   out, executed, env0, runs : history of the current run: the values    *)
(*                   given to vm_output, the ip of every instruction       *)
(*                   fetched, vm_env at the start of the run, the number   *)
(*                   of calls of run                                       *)
(***************************************************************************)
VARIABLES stmts, origin, bytecode, ip, sp, stack, vm_env, status, err, ub,
          out, executed, env0, runs, limit, chain, call, ret, fatal

\* the variables of the compiler and the virtual machine; limit is the number
\* of instructions of one run that are followed
vmVars == <<stmts, origin, bytecode, ip, sp, stack, vm_env, status, err, ub,
            out, executed, env0, runs, limit>>

\* the variables of a scope chain used directly through environment.h
envVars == <<chain, call, ret, fatal>>

vars == <<vmVars, envVars>>

\* values a read outside the stack array, or a division by zero that does
\* not trap, may produce
UndefinedValues == {0, 1}

(***************************************************************************)
(* A scope chain used directly through environment.h: chain is the         *)
(* Environment* the caller holds, its scope first and the parents after    *)
(* it.  The caller nests a scope with new_environment, goes back to the    *)
(* parent with free_environment, and calls define_var, assign_var and      *)
(* lookup_var on the scope it holds.                                       *)
(***************************************************************************)
EnvNames == {<<"x">>, <<"y">>}

EnvValues == {1, 2}

\* the last call made: its arguments and the chain it was made on
NoCall == [op |-> "none", name |-> <<>>, value |-> 0, before |-> <<>>]

EnvIdle == chain = <<>> /\ call = NoCall /\ ret = 0 /\ fatal = FALSE

\* free_environment(env): the structure alone is freed, the parent stays
free_environment(env) == Tail(env)

\* the values `count` can be read as once the write of entries[128].name has
\* landed on it
UndefinedCounts == {0, ENV_CAPACITY}

\* the stores define_var can leave: with count at 128 and a new name,
\* entries[count] is outside the array, which is followed in the structure by
\* count and parent; either count survives and is incremented, or it is read
\* back as something else
define_var_outcomes(env, name, value) ==
    IF FindEntry(env[1], name) = 0 /\ Len(env[1]) >= ENV_CAPACITY
    THEN {define_var(env, name, value)}
         \cup {[env EXCEPT ![1] = SubSeq(@, 1, c)] : c \in UndefinedCounts}
    ELSE {define_var(env, name, value)}

\* the last call wrote outside the entries of its scope: what the caller does
\* next is not followed
Overrun ==
    /\ call.op = "define_var"
    /\ FindEntry(call.before[1], call.name) = 0
    /\ Len(call.before[1]) >= ENV_CAPACITY

\* env = new_environment(env)
EnvNew ==
    /\ ~fatal
    /\ ~Overrun
    /\ Len(chain) < MaxDepth
    /\ chain' = new_environment(chain)
    /\ call' = [op |-> "new_environment", name |-> <<>>, value |-> 0, before |-> chain]
    /\ UNCHANGED <<ret, fatal, vmVars>>

\* parent = env->parent; free_environment(env); env = parent
EnvFree ==
    /\ ~fatal
    /\ ~Overrun
    /\ Len(chain) > 1
    /\ chain' = free_environment(chain)
    /\ call' = [op |-> "free_environment", name |-> <<>>, value |-> 0, before |-> chain]
    /\ UNCHANGED <<ret, fatal, vmVars>>

\* mutant of EnvDefine: the binding is made in the parent when there is one
EnvDefine_in_parent(name, value) ==
    /\ ~fatal
    /\ chain # <<>>
    /\ chain' = IF Len(chain) > 1
                THEN <<chain[1]>> \o define_var(Tail(chain), name, value)
                ELSE define_var(chain, name, value)
    /\ call' = [op |-> "define_var", name |-> name, value |-> value, before |-> chain]
    /\ UNCHANGED <<ret, fatal, vmVars>>

\* define_var(env, name, value)
EnvDefine(name, value) ==
    /\ ~fatal
    /\ ~Overrun
    /\ chain # <<>>
    /\ chain' \in define_var_outcomes(chain, name, value)
    /\ call' = [op |-> "define_var", name |-> name, value |-> value, before |-> chain]
    /\ UNCHANGED <<ret, fatal, vmVars>>

\* assign_var(env, name, value)
EnvAssign(name, value) ==
    /\ ~fatal
    /\ ~Overrun
    /\ chain # <<>>
    /\ LET r == assign_var(chain, name, value)
       IN /\ chain' = r.env
          /\ fatal' = ~r.found
    /\ call' = [op |-> "assign_var", name |-> name, value |-> value, before |-> chain]
    /\ UNCHANGED <<ret, vmVars>>

\* lookup_var(env, name)
EnvLookup(name) ==
    /\ ~fatal
    /\ ~Overrun
    /\ chain # <<>>
    /\ LET r == lookup_var(chain, name)
       IN /\ ret' = IF r.found THEN r.value ELSE ret
          /\ fatal' = ~r.found
    /\ call' = [op |-> "lookup_var", name |-> name, value |-> 0, before |-> chain]
    /\ UNCHANGED <<chain, vmVars>>

Init ==
    /\ stmts = <<>>
    /\ origin = "none"
    /\ bytecode = NewBytecode
    /\ ip = 0
    /\ sp = 0
    /\ stack = <<>>
    /\ vm_env = <<>>
    /\ status = "idle"
    /\ err = ""
    /\ ub = FALSE
    /\ out = <<>>
    /\ executed = <<>>
    /\ env0 = <<>>
    /\ runs = 0
    /\ limit = MaxSteps
    /\ EnvIdle

\* main.c / repl.c: bc = compile(stmts, stmt_count)
Compile(p) ==
    /\ status \in {"idle", "halted"}
    /\ runs < MaxRuns
    /\ stmts' = p
    /\ origin' = "compiled"
    /\ bytecode' = compile(p)
    /\ status' = IF compile(p).exited THEN "exited" ELSE "compiled"
    /\ err' = IF compile(p).exited THEN "compile" ELSE ""
    /\ UNCHANGED <<ip, sp, stack, vm_env, ub, out, executed, env0, runs>>
    /\ UNCHANGED <<limit, envVars>>

\* tests/vm_tests.c: a Bytecode filled in by hand
BuildByHand(b) ==
    /\ status \in {"idle", "halted"}
    /\ runs < MaxRuns
    /\ stmts' = <<>>
    /\ origin' = "hand"
    /\ bytecode' = b
    /\ status' = "compiled"
    /\ err' = ""
    /\ UNCHANGED <<ip, sp, stack, vm_env, ub, out, executed, env0, runs>>
    /\ UNCHANGED <<limit, envVars>>

\* mutant of ensure_vm_env: every run gets a new environment
ensure_vm_env_fresh(env) == new_environment(<<>>)

\* `if (!vm_env) vm_env = new_environment(NULL);` on the static vm_env
ensure_vm_env(env) == IF env = <<>> THEN new_environment(<<>>) ELSE env

\* run, up to the first fetch
RunStart ==
    /\ status = "compiled"
    /\ ip' = 0
    /\ sp' = 0
    /\ stack' = <<>>
    /\ vm_env' = ensure_vm_env(vm_env)
    /\ env0' = vm_env'
    /\ status' = "running"
    /\ ub' = FALSE
    /\ out' = <<>>
    /\ executed' = <<>>
    /\ runs' = runs + 1
    /\ UNCHANGED <<stmts, origin, bytecode, err>>
    /\ UNCHANGED <<limit, envVars>>

Count == Len(bytecode.instructions)

\* mutant of Fetching: the loop goes on after BC_HALT
Fetching_after_halt == status \in {"running", "halted"} /\ Len(executed) < limit

Fetching == status = "running" /\ Len(executed) < limit

InRange == ip >= 0 /\ ip < Count

instr == bytecode.instructions[ip + 1]

\* `stack[sp++] = value` on the machine m = [sp, stack, ub]
Push(m, value) ==
    IF m.sp >= 0 /\ m.sp < STACK_SIZE
    THEN [sp |-> m.sp + 1, stack |-> Append(m.stack, value), ub |-> m.ub]
    ELSE [sp |-> m.sp + 1, stack |-> m.stack, ub |-> TRUE]

\* mutant of Pop: `stack[sp - 1]`, the value is read and left on the stack
Pop_peeking(m, u) ==
    IF m.sp >= 1 /\ m.sp <= STACK_SIZE
    THEN [m |-> m, value |-> m.stack[m.sp]]
    ELSE [m |-> [m EXCEPT !.ub = TRUE], value |-> u]

\* `stack[--sp]`: the machine after it and the value read; u is what a read
\* outside the array yields
Pop(m, u) ==
    IF m.sp >= 1 /\ m.sp <= STACK_SIZE
    THEN [m |-> [sp |-> m.sp - 1, stack |-> SubSeq(m.stack, 1, m.sp - 1), ub |-> m.ub],
          value |-> m.stack[m.sp]]
    ELSE [m |-> [sp |-> m.sp - 1, stack |-> m.stack, ub |-> TRUE], value |-> u]

Machine == [sp |-> sp, stack |-> stack, ub |-> ub]

SetMachine(m) == sp' = m.sp /\ stack' = m.stack /\ ub' = m.ub

\* mutant of Fetched: `code[ip]`, the instruction pointer is not advanced
Fetched_in_place == ip' = ip /\ executed' = Append(executed, ip)

Fetched == ip' = ip + 1 /\ executed' = Append(executed, ip)

ArithmeticOpcodes ==
    {"BC_ADD", "BC_SUB", "BC_MUL", "BC_DIV", "BC_EQUAL", "BC_NOT_EQUAL",
     "BC_LESS", "BC_LESS_EQUAL", "BC_GREATER", "BC_GREATER_EQUAL"}

HandledOpcodes ==
    ArithmeticOpcodes \cup
    {"BC_CONST", "BC_LOAD_VAR", "BC_SET_VAR", "BC_DEFINE_VAR", "BC_PRINT",
     "BC_JUMP_IF_FALSE", "BC_JUMP", "BC_HALT"}

\* mutant of binary_result: BC_SUB and the order comparisons take their
\* operands in pop order
binary_result_swapped(opcode, a, b) ==
    CASE opcode = "BC_ADD" -> a + b
      [] opcode = "BC_SUB" -> b - a
      [] opcode = "BC_MUL" -> a * b
      [] opcode = "BC_DIV" -> TruncDiv(a, b)
      [] opcode = "BC_EQUAL" -> Bool(a = b)
      [] opcode = "BC_NOT_EQUAL" -> Bool(a # b)
      [] opcode = "BC_LESS" -> Bool(b < a)
      [] opcode = "BC_LESS_EQUAL" -> Bool(b <= a)
      [] opcode = "BC_GREATER" -> Bool(b > a)
      [] opcode = "BC_GREATER_EQUAL" -> Bool(b >= a)

\* the value an arithmetic or comparison case pushes, from a (popped second)
\* and b (popped first); BC_DIV with b # 0
binary_result(opcode, a, b) ==
    CASE opcode = "BC_ADD" -> a + b
      [] opcode = "BC_SUB" -> a - b
      [] opcode = "BC_MUL" -> a * b
      [] opcode = "BC_DIV" -> TruncDiv(a, b)
      [] opcode = "BC_EQUAL" -> Bool(a = b)
      [] opcode = "BC_NOT_EQUAL" -> Bool(a # b)
      [] opcode = "BC_LESS" -> Bool(a < b)
      [] opcode = "BC_LESS_EQUAL" -> Bool(a <= b)
      [] opcode = "BC_GREATER" -> Bool(a > b)
      [] opcode = "BC_GREATER_EQUAL" -> Bool(a >= b)

\* mutant of jump_if_false_ip: a negative condition counts as false
jump_if_false_ip_positive(next, target, cond) == IF cond > 0 THEN next ELSE target

\* BC_JUMP_IF_FALSE: `if (!cond) ip = target;`, next being ip after `ip++`
jump_if_false_ip(next, target, cond) == IF cond = 0 THEN target ELSE next

\* case BC_CONST
ExecConst ==
    /\ Fetching /\ InRange /\ instr.opcode = "BC_CONST"
    /\ Fetched
    /\ IF instr.operand >= 0 /\ instr.operand < Len(bytecode.constants)
       THEN SetMachine(Push(Machine, bytecode.constants[instr.operand + 1]))
       ELSE \E u \in UndefinedValues : SetMachine(Push([Machine EXCEPT !.ub = TRUE], u))
    /\ UNCHANGED <<stmts, origin, bytecode, vm_env, status, err, out, env0, runs>>
    /\ UNCHANGED <<limit, envVars>>

\* cases BC_ADD .. BC_GREATER_EQUAL
ExecBinary ==
    /\ Fetching /\ InRange /\ instr.opcode \in ArithmeticOpcodes
    /\ Fetched
    /\ \E u1 \in UndefinedValues, u2 \in UndefinedValues,
          u3 \in UndefinedValues, trap \in BOOLEAN :
         LET pb == Pop(Machine, u1)
             pa == Pop(pb.m, u2)
             b == pb.value
             a == pa.value
         IN IF instr.opcode = "BC_DIV" /\ b = 0
            THEN IF trap
                 THEN /\ SetMachine([pa.m EXCEPT !.ub = TRUE])
                      /\ status' = "crashed"
                 ELSE /\ SetMachine(Push([pa.m EXCEPT !.ub = TRUE], u3))
                      /\ status' = status
            ELSE /\ SetMachine(Push(pa.m, binary_result(instr.opcode, a, b)))
                 /\ status' = status
    /\ UNCHANGED <<stmts, origin, bytecode, vm_env, err, out, env0, runs>>
    /\ UNCHANGED <<limit, envVars>>

\* case BC_LOAD_VAR
ExecLoadVar ==
    /\ Fetching /\ InRange /\ instr.opcode = "BC_LOAD_VAR"
    /\ Fetched
    /\ LET name == <<Chr(instr.operand)>>
           r == lookup_var(vm_env, name)
       IN IF r.found
          THEN /\ SetMachine(Push(Machine, r.value))
               /\ UNCHANGED <<status, err>>
          ELSE /\ status' = "exited"
               /\ err' = "Undefined variable"
               /\ UNCHANGED <<sp, stack, ub>>
    /\ UNCHANGED <<stmts, origin, bytecode, vm_env, out, env0, runs>>
    /\ UNCHANGED <<limit, envVars>>

\* case BC_SET_VAR
ExecSetVar ==
    /\ Fetching /\ InRange /\ instr.opcode = "BC_SET_VAR"
    /\ Fetched
    /\ \E u \in UndefinedValues :
         LET p == Pop(Machine, u)
             name == <<Chr(instr.operand)>>
             r == assign_var(vm_env, name, p.value)
         IN /\ SetMachine(p.m)
            /\ IF r.found
               THEN /\ vm_env' = r.env
                    /\ UNCHANGED <<status, err>>
               ELSE /\ status' = "exited"
                    /\ err' = "Undefined variable"
                    /\ UNCHANGED vm_env
    /\ UNCHANGED <<stmts, origin, bytecode, out, env0, runs>>
    /\ UNCHANGED <<limit, envVars>>

\* case BC_DEFINE_VAR
ExecDefineVar ==
    /\ Fetching /\ InRange /\ instr.opcode = "BC_DEFINE_VAR"
    /\ Fetched
    /\ \E u \in UndefinedValues :
         LET p == Pop(Machine, u)
             name == <<Chr(instr.operand)>>
         IN /\ SetMachine(p.m)
            /\ vm_env' = define_var(vm_env, name, p.value)
    /\ UNCHANGED <<stmts, origin, bytecode, status, err, out, env0, runs>>
    /\ UNCHANGED <<limit, envVars>>

\* case BC_PRINT
ExecPrint ==
    /\ Fetching /\ InRange /\ instr.opcode = "BC_PRINT"
    /\ Fetched
    /\ \E u \in UndefinedValues :
         LET p == Pop(Machine, u)
         IN /\ SetMachine(p.m)
            /\ out' = Append(out, p.value)
    /\ UNCHANGED <<stmts, origin, bytecode, vm_env, status, err, env0, runs>>
    /\ UNCHANGED <<limit, envVars>>

\* case BC_JUMP_IF_FALSE
ExecJumpIfFalse ==
    /\ Fetching /\ InRange /\ instr.opcode = "BC_JUMP_IF_FALSE"
    /\ executed' = Append(executed, ip)
    /\ \E u \in UndefinedValues :
         LET p == Pop(Machine, u)
             target == instr.operand
             cond == p.value
         IN /\ SetMachine(p.m)
            /\ ip' = jump_if_false_ip(ip + 1, target, cond)
    /\ UNCHANGED <<stmts, origin, bytecode, vm_env, status, err, out, env0, runs>>
    /\ UNCHANGED <<limit, envVars>>

\* mutant of ExecJump: the operand is taken as an offset from the jump
ExecJump_relative ==
    /\ Fetching /\ InRange /\ instr.opcode = "BC_JUMP"
    /\ executed' = Append(executed, ip)
    /\ ip' = ip + instr.operand
    /\ UNCHANGED <<stmts, origin, bytecode, sp, stack, ub, vm_env, status, err,
                   out, env0, runs>>
    /\ UNCHANGED <<limit, envVars>>

\* case BC_JUMP
ExecJump ==
    /\ Fetching /\ InRange /\ instr.opcode = "BC_JUMP"
    /\ executed' = Append(executed, ip)
    /\ ip' = instr.operand
    /\ UNCHANGED <<stmts, origin, bytecode, sp, stack, ub, vm_env, status, err,
                   out, env0, runs>>
    /\ UNCHANGED <<limit, envVars>>

\* mutant of ExecHalt: the program is emptied when the run ends
ExecHalt_clearing ==
    /\ Fetching /\ InRange /\ instr.opcode = "BC_HALT"
    /\ Fetched
    /\ status' = "halted"
    /\ bytecode' = [bytecode EXCEPT !.instructions = <<>>, !.constants = <<>>]
    /\ UNCHANGED <<stmts, origin, sp, stack, ub, vm_env, err, out, env0, runs>>
    /\ UNCHANGED <<limit, envVars>>

\* case BC_HALT
ExecHalt ==
    /\ Fetching /\ InRange /\ instr.opcode = "BC_HALT"
    /\ Fetched
    /\ status' = "halted"
    /\ UNCHANGED <<stmts, origin, bytecode, sp, stack, ub, vm_env, err, out, env0, runs>>
    /\ UNCHANGED <<limit, envVars>>

\* default: "Unknown opcode", exit(1)
ExecUnknown ==
    /\ Fetching /\ InRange /\ instr.opcode \notin HandledOpcodes
    /\ Fetched
    /\ status' = "exited"
    /\ err' = "Unknown opcode"
    /\ UNCHANGED <<stmts, origin, bytecode, sp, stack, ub, vm_env, out, env0, runs>>
    /\ UNCHANGED <<limit, envVars>>

\* `code[ip++]` with ip outside the instructions: the read is undefined, the
\* run is not followed further
FetchOutside ==
    /\ Fetching /\ ~InRange
    /\ Fetched
    /\ ub' = TRUE
    /\ status' = "crashed"
    /\ UNCHANGED <<stmts, origin, bytecode, sp, stack, vm_env, err, out, env0, runs>>
    /\ UNCHANGED <<limit, envVars>>

Next ==
    \/ \E p \in Programs \cup MalformedTrees : Compile(p)
    \/ \E b \in HandPrograms : BuildByHand(b)
    \/ RunStart
    \/ ExecConst
    \/ ExecBinary
    \/ ExecLoadVar
    \/ ExecSetVar
    \/ ExecDefineVar
    \/ ExecPrint
    \/ ExecJumpIfFalse
    \/ ExecJump
    \/ ExecHalt
    \/ ExecUnknown
    \/ FetchOutside

Spec == Init /\ [][Next]_vars

\* one run of `while (1) { 1; }`, or of the loop with eight expression
\* statements, followed until the operand stack is full: `while (1) { 1; }`
\* takes four instructions per iteration, each iteration leaving one value
OverflowSteps == 4 * STACK_SIZE + 8

InitOverflow ==
    /\ stmts = <<>>
    /\ origin = "none"
    /\ bytecode = NewBytecode
    /\ ip = 0
    /\ sp = 0
    /\ stack = <<>>
    /\ vm_env = <<>>
    /\ status = "idle"
    /\ err = ""
    /\ ub = FALSE
    /\ out = <<>>
    /\ executed = <<>>
    /\ env0 = <<>>
    /\ runs = 0
    /\ limit = OverflowSteps
    /\ EnvIdle

NextOverflow ==
    \/ \E p \in {LoopForever, LoopPushing} : Compile(p)
    \/ RunStart
    \/ ExecConst
    \/ ExecJumpIfFalse
    \/ ExecJump

SpecOverflow == InitOverflow /\ [][NextOverflow]_vars

\* the scope store on its own
NextEnv ==
    \/ EnvNew
    \/ EnvFree
    \/ \E name \in EnvNames, value \in EnvValues : EnvDefine(name, value)
    \/ \E name \in EnvNames, value \in EnvValues : EnvAssign(name, value)
    \/ \E name \in EnvNames : EnvLookup(name)

SpecEnv == Init /\ [][NextEnv]_vars

\* the letters the names of the capacity scenario are made of
NameLetters == <<"a", "b", "f", "i", "o", "x", "y">>

\* the k-th of the three-letter names, all different for k < 343
VarName(k) ==
    <<NameLetters[((k \div 49) % 7) + 1], NameLetters[((k \div 7) % 7) + 1],
      NameLetters[(k % 7) + 1]>>

\* one scope, as the global_env of the interpreter is: a caller that defines
\* one new name after the other, and defines the first name again
NextCapacity ==
    \/ chain = <<>> /\ EnvNew
    \/ chain # <<>> /\ EnvDefine(VarName(Len(chain[1])), 1)
    \/ \E value \in EnvValues : chain # <<>> /\ chain[1] # <<>> /\ EnvDefine(VarName(0), value)

SpecCapacity == Init /\ [][NextCapacity]_vars

\* one turn of the `while (1)` loop of run
VmStep ==
    \/ ExecConst
    \/ ExecBinary
    \/ ExecLoadVar
    \/ ExecSetVar
    \/ ExecDefineVar
    \/ ExecPrint
    \/ ExecJumpIfFalse
    \/ ExecJump
    \/ ExecHalt
    \/ ExecUnknown
    \/ FetchOutside

\* run is one sequential loop with no blocking call: as long as the loop has
\* not been left, its next turn is taken
SpecFair == Spec /\ WF_vars(VmStep)

(***************************************************************************)
(* Properties.                                                             *)
(***************************************************************************)
Terminal == status \in {"halted", "exited", "crashed"}

\* the run started with a scope store holding no bindings
FromEmptyScope == env0 = << <<>> >>

\* the bindings of a one-level store, as a set of <<name, value>>
Bindings(env) ==
    IF env = <<>> THEN {}
    ELSE {<<env[1][k].name, env[1][k].value>> : k \in 1..Len(env[1])}

Opcodes(bc) == [k \in 1..Len(bc.instructions) |-> bc.instructions[k].opcode]

JumpOpcodes == {"BC_JUMP", "BC_JUMP_IF_FALSE"}

\* C1: for every accepted statement sequence, running the compiled program
\* from an empty scope gives the same printed values, the same final
\* bindings and the same outcome as interpret on the same statements from
\* an empty scope.
C1_CompiledMatchesInterpreter ==
    (origin = "compiled" /\ FromEmptyScope /\ status \in {"halted", "exited"}) =>
        LET r == interpret(<<>>, stmts)
        IN r.status \in {"ok", "exited"} =>
             /\ (status = "halted") <=> (r.status = "ok")
             /\ out = r.out
             /\ Bindings(vm_env) = Bindings(r.env)

\* C2: `let x = 5; x = x + 3; yap(x);` compiles to a program with constant
\* pool 5, 3 whose run from an empty scope reaches Halt with exactly one
\* output event, 8.
C2_LetAssignPrint ==
    (origin = "compiled" /\ stmts = LetAssignPrint /\ FromEmptyScope /\ Terminal) =>
        /\ bytecode.constants = <<5, 3>>
        /\ status = "halted"
        /\ out = <<8>>

\* C3: every top-level `let v = e;` compiles to the code of e immediately
\* followed by BC_DEFINE_VAR v; `let x = 42;` is exactly BC_CONST 0,
\* BC_DEFINE_VAR, BC_HALT, and in `let x = 1; x = 99;` only the assignment
\* gives BC_SET_VAR.
C3_LetEmitsDefineVar ==
    (origin = "compiled" /\ status = "compiled") =>
        /\ \A k \in 1..Len(stmts) :
             stmts[k].type = "STMT_LET" =>
               LET n0 == Len(compile_stmts(NewBytecode, SubSeq(stmts, 1, k - 1), 1).instructions)
                   e == Opcodes(compile_expr(NewBytecode, stmts[k].initializer))
               IN /\ \A j \in 1..Len(e) : bytecode.instructions[n0 + j].opcode = e[j]
                  /\ bytecode.instructions[n0 + Len(e) + 1] =
                        Instr("BC_DEFINE_VAR", Ascii[stmts[k].name[1]])
        /\ stmts = LetOnly =>
             bytecode.instructions =
               <<Instr("BC_CONST", 0), Instr("BC_DEFINE_VAR", Ascii["x"]), Instr("BC_HALT", 0)>>
        /\ stmts = LetThenAssign =>
             Opcodes(bytecode) =
               <<"BC_CONST", "BC_DEFINE_VAR", "BC_CONST", "BC_SET_VAR", "BC_HALT">>

\* C4: every program returned by compile, the one of the empty statement
\* sequence included, has at least one instruction, ends with BC_HALT and
\* has BC_HALT at no other index.
C4_HaltOnlyLast ==
    (origin = "compiled" /\ ~bytecode.exited) =>
        /\ Count >= 1
        /\ bytecode.instructions[Count].opcode = "BC_HALT"
        /\ \A k \in 1..(Count - 1) : bytecode.instructions[k].opcode # "BC_HALT"

\* a compiled program with branches and a loop ends with its only BC_HALT
C4_Witness ==
    /\ origin = "compiled"
    /\ stmts = WhileProg(MaxOperand)
    /\ status = "compiled"
    /\ Count = 14
    /\ bytecode.instructions[Count].opcode = "BC_HALT"

\* C5: in every program returned by compile the operand t of every BC_JUMP
\* and BC_JUMP_IF_FALSE is a valid index of the instruction sequence:
\* 0 <= t < length.
C5_JumpTargetsValid ==
    (origin = "compiled" /\ ~bytecode.exited) =>
        \A k \in 1..Count :
            bytecode.instructions[k].opcode \in JumpOpcodes =>
                /\ bytecode.instructions[k].operand >= 0
                /\ bytecode.instructions[k].operand < Count

\* a compiled if whose forward jump lands on the final BC_HALT, the largest
\* target a program has
C5_Witness ==
    /\ origin = "compiled"
    /\ stmts = IfScenario
    /\ status = "compiled"
    /\ \E k \in 1..Count :
         /\ bytecode.instructions[k].opcode = "BC_JUMP"
         /\ bytecode.instructions[k].operand = Count - 1
    /\ \E k \in 1..Count : bytecode.instructions[k].opcode = "BC_JUMP_IF_FALSE"

Range(a, b) == [k \in 1..(b - a + 1) |-> a + k - 1]

Occurrences(seq, x) == Cardinality({j \in 1..Len(seq) : seq[j] = x})

\* the value of each condition of IfConds
IfCondValue(c) ==
    CASE c = Num(0) -> 0
      [] c = Num(1) -> 1
      [] c = Num(2) -> 2
      [] c = Binary(Num(0), "-", Num(1)) -> -1
      [] c = Binary(Num(1), "==", Num(1)) -> 1
      [] c = Binary(Num(1), "==", Num(2)) -> 0

\* number of instructions of each condition of IfConds
IfCondLength(c) == IF c.type = "EXPR_LITERAL" THEN 1 ELSE 3

\* IfProg(c, hasElse) with a condition of n instructions is laid out as
\*   0..n-1 condition, n BC_JUMP_IF_FALSE, n+1..n+2 then-branch,
\*   with else:    n+3 BC_JUMP, n+4..n+5 else-branch, n+6..n+8 rest,
\*   without else: n+3..n+5 rest.
\* The instructions a run has to fetch, in order:
ExpectedIfTrace(n, v, hasElse) ==
    CASE v # 0 /\ hasElse  -> Range(0, n + 3) \o Range(n + 6, n + 8)
      [] v = 0 /\ hasElse  -> Range(0, n) \o Range(n + 4, n + 8)
      [] v # 0 /\ ~hasElse -> Range(0, n + 5)
      [] v = 0 /\ ~hasElse -> Range(0, n) \o Range(n + 3, n + 5)

ExpectedIfOut(v, hasElse) ==
    CASE v # 0 -> <<10, 30>>
      [] v = 0 /\ hasElse -> <<20, 30>>
      [] v = 0 /\ ~hasElse -> <<30>>

\* C6: a compiled if run by the VM executes only the then-branch when the
\* condition is nonzero (negative included), only the else-branch when it
\* is 0 and an else exists, no branch when it is 0 and there is no else,
\* and in every case goes on with the first instruction after the if;
\* `if (1 == 1) { yap(10); } else { yap(20); }` emits exactly 10.
C6_IfBranchSelection ==
    /\ \A c \in IfConds, hasElse \in BOOLEAN :
         (origin = "compiled" /\ stmts = IfProg(c, hasElse) /\ Terminal) =>
             /\ status = "halted"
             /\ out = ExpectedIfOut(IfCondValue(c), hasElse)
             /\ executed = ExpectedIfTrace(IfCondLength(c), IfCondValue(c), hasElse)
    /\ (origin = "compiled" /\ stmts = IfScenario /\ Terminal) =>
             /\ status = "halted"
             /\ out = <<10>>

\* a negative condition has selected the then-branch and skipped the else
C6_Witness ==
    /\ origin = "compiled"
    /\ stmts = IfProg(Binary(Num(0), "-", Num(1)), TRUE)
    /\ status = "halted"
    /\ out = <<10, 30>>
    /\ executed = <<0, 1, 2, 3, 4, 5, 6, 9, 10, 11>>

\* WhileProg(k) is laid out as 0..2 condition, 3 BC_JUMP_IF_FALSE,
\* 4..9 body, 10 BC_JUMP, 11..12 yap(99), 13 BC_HALT.
\* C7: a compiled while whose condition is nonzero on its first n
\* evaluations and 0 on the next executes its body exactly n times,
\* evaluates its condition exactly n + 1 times, then goes on after the loop
\* and halts.  With i bound to i0 at the start, `while (i < k)` has
\* n = k - i0 (0 when i0 >= k).
C7_WhileIterations ==
    \A k \in 0..MaxOperand, b \in Bindings(env0) :
        (origin = "compiled" /\ stmts = WhileProg(k) /\ b[1] = I /\ Terminal) =>
            LET i0 == b[2]
                n == IF k > i0 THEN k - i0 ELSE 0
            IN /\ status = "halted"
               /\ Occurrences(executed, 0) = n + 1
               /\ Occurrences(executed, 3) = n + 1
               /\ Occurrences(executed, 4) = n
               /\ Occurrences(executed, 9) = n
               /\ Occurrences(executed, 10) = n
               /\ out = Range(i0, i0 + n - 1) \o <<99>>
               /\ executed[Len(executed)] = 13

\* the loop has run MaxOperand times from i = 0
C7_Witness ==
    /\ origin = "compiled"
    /\ stmts = WhileProg(MaxOperand)
    /\ <<I, 0>> \in Bindings(env0)
    /\ status = "halted"
    /\ Occurrences(executed, 4) = MaxOperand
    /\ out = Range(0, MaxOperand - 1) \o <<99>>

\* the value of `a op b` on operands 0 .. MaxOperand (b # 0 for "/")
HostBinary(op, a, b) ==
    CASE op = "+"  -> a + b
      [] op = "-"  -> a - b
      [] op = "*"  -> a * b
      [] op = "/"  -> a \div b
      [] op = "==" -> IF a = b THEN 1 ELSE 0
      [] op = "!=" -> IF a = b THEN 0 ELSE 1
      [] op = "<"  -> IF a < b THEN 1 ELSE 0
      [] op = "<=" -> IF a > b THEN 0 ELSE 1
      [] op = ">"  -> IF a > b THEN 1 ELSE 0
      [] op = ">=" -> IF a < b THEN 0 ELSE 1

ComparisonOps == {"==", "!=", "<", "<=", ">", ">="}

\* C8: for every binary operator op and operands a, b (b nonzero for /),
\* the compiled `yap(a op b);` emits exactly one output event, the value
\* of a op b with a on the left and b on the right, and halts; a
\* comparison emits 1 or 0.
C8_BinaryOperators ==
    \A op \in BinaryOps, a \in 0..MaxOperand, b \in 0..MaxOperand :
        (origin = "compiled" /\ stmts = PrintBin(op, a, b) /\ ~(op = "/" /\ b = 0)
         /\ Terminal) =>
            /\ status = "halted"
            /\ out = <<HostBinary(op, a, b)>>
            /\ op \in ComparisonOps => out[1] \in {0, 1}

\* a subtraction whose result shows which operand is on the left
C8_Witness ==
    /\ origin = "compiled"
    /\ stmts = PrintBin("-", 1, MaxOperand)
    /\ status = "halted"
    /\ out = <<1 - MaxOperand>>

\* the number a lexeme of one or two decimal digits denotes
Decimal(lexeme) == IF Len(lexeme) = 1 THEN lexeme[1] ELSE 10 * lexeme[1] + lexeme[2]

\* C9: for every integer literal n the compiled `yap(n);` emits exactly
\* one output event, n, and then halts.
C9_PrintLiteral ==
    \A l \in LitLexemes :
        (origin = "compiled" /\ stmts = PrintLit(l) /\ Terminal) =>
            /\ status = "halted"
            /\ out = <<Decimal(l)>>
            /\ executed = <<0, 1, 2>>

\* yap(42); has run to its end
C9_Witness ==
    /\ origin = "compiled"
    /\ stmts = PrintLit(<<4, 2>>)
    /\ status = "halted"
    /\ out = <<42>>

BoundNames(env) == {b[1] : b \in Bindings(env)}

\* the bindings after name is bound to value
Rebound(env, name, value) ==
    {b \in Bindings(env) : b[1] # name} \cup {<<name, value>>}

\* what C10 asks of one step of the VM
C10_Step ==
    /\ (status = "running" /\ InRange /\ instr.opcode = "BC_DEFINE_VAR"
        /\ Len(executed) < MaxSteps) =>
          /\ sp' = sp - 1
          /\ status' = "running"
          /\ Len(vm_env') = Len(vm_env)
          /\ Len(vm_env'[1]) =
               Len(vm_env[1]) + (IF <<Chr(instr.operand)>> \in BoundNames(vm_env) THEN 0 ELSE 1)
          /\ sp >= 1 => Bindings(vm_env') = Rebound(vm_env, <<Chr(instr.operand)>>, stack[sp])
    /\ (status = "running" /\ InRange /\ instr.opcode = "BC_SET_VAR"
        /\ Len(executed) < MaxSteps) =>
          /\ sp' = sp - 1
          /\ IF <<Chr(instr.operand)>> \in BoundNames(vm_env)
             THEN /\ status' = "running"
                  /\ Len(vm_env') = Len(vm_env)
                  /\ Len(vm_env'[1]) = Len(vm_env[1])
                  /\ sp >= 1 =>
                       Bindings(vm_env') = Rebound(vm_env, <<Chr(instr.operand)>>, stack[sp])
             ELSE /\ status' = "exited"
                  /\ err' = "Undefined variable"
                  /\ vm_env' = vm_env
    /\ (bytecode = VmTest2 /\ status = "running" /\ ip = 4) => stack' = <<9>>
    /\ (bytecode' = VmTest2 /\ Terminal') => (status' = "halted" /\ out' = <<9>>)

\* C10: BC_DEFINE_VAR pops one value and creates or overwrites the binding
\* in the current scope level only; BC_SET_VAR pops one value and updates
\* the existing binding, and is fatal when there is none; after DEFINE x=5
\* and SET x=9, LOAD x pushes 9.
C10_DefineAndSet == [][C10_Step]_vars

\* the program of Test 2 has run: x was defined as 5, set to 9, loaded and
\* printed
C10_Witness ==
    /\ bytecode = VmTest2
    /\ status = "halted"
    /\ out = <<9>>
    /\ <<X, 9>> \in Bindings(vm_env)
    /\ executed = <<0, 1, 2, 3, 4, 5, 6>>


(***************************************************************************)
(* Properties of the scope store (SpecEnv).                                *)
(***************************************************************************)
NoDuplicateNames(scope) ==
    \A i \in 1..Len(scope), j \in 1..Len(scope) :
        scope[i].name = scope[j].name => i = j

\* the indices of the entries of a scope that carry the name
EntriesNamed(scope, name) == {i \in 1..Len(scope) : scope[i].name = name}

\* C11: after any sequence of define_var and assign_var calls no scope holds
\* two entries with the same name; a define_var of a name the scope already
\* binds leaves exactly one binding of it, with the new value, and the same
\* number of entries
C11_OneBindingPerName ==
    /\ \A k \in 1..Len(chain) : NoDuplicateNames(chain[k])
    /\ call.op = "define_var" =>
         LET old == call.before[1]
             new == chain[1]
         IN /\ Cardinality(EntriesNamed(new, call.name)) = 1
            /\ \A i \in EntriesNamed(new, call.name) : new[i].value = call.value
            /\ EntriesNamed(old, call.name) # {} => Len(new) = Len(old)

C11_Witness ==
    /\ call.op = "define_var"
    /\ \E i \in EntriesNamed(call.before[1], call.name) :
           call.before[1][i].value # call.value
    /\ Len(chain[1]) = 2

\* the levels of a chain whose scope binds the name
BindingLevels(env, name) ==
    {j \in 1..Len(env) : EntriesNamed(env[j], name) # {}}

\* the nearest of them
NearestLevel(env, name) ==
    CHOOSE j \in BindingLevels(env, name) :
        \A m \in BindingLevels(env, name) : j <= m

\* the scope with every entry of the name set to the value
Rebind(scope, name, value) ==
    [i \in 1..Len(scope) |->
        IF scope[i].name = name THEN [name |-> name, value |-> value] ELSE scope[i]]

\* C12: for a name absent from the scope itself and bound in an ancestor,
\* lookup_var returns the value of the nearest ancestor binding and assign_var
\* changes that binding only, adding no entry to the scope or to a scope in
\* between
C12_NearestAncestor ==
    (/\ call.op \in {"lookup_var", "assign_var"}
     /\ EntriesNamed(call.before[1], call.name) = {}
     /\ BindingLevels(call.before, call.name) # {})
    => LET j == NearestLevel(call.before, call.name)
           i == CHOOSE n \in EntriesNamed(call.before[j], call.name) : TRUE
       IN /\ ~fatal
          /\ call.op = "lookup_var" =>
                /\ ret = call.before[j][i].value
                /\ chain = call.before
          /\ call.op = "assign_var" =>
                chain = [call.before EXCEPT ![j] = Rebind(@, call.name, call.value)]

C12_Witness ==
    /\ call.op = "assign_var"
    /\ Len(chain) = 3
    /\ EntriesNamed(chain[1], call.name) = {}
    /\ EntriesNamed(chain[2], call.name) = {}
    /\ \E i \in EntriesNamed(chain[3], call.name) :
          /\ chain[3][i].value = call.value
          /\ call.before[3][i].value # call.value

\* C13: lookup_var and assign_var on a name bound nowhere in the chain end in
\* the fatal error, at every depth, and assign_var has changed no binding
\* when it fails
C13_UnboundIsFatal ==
    (/\ call.op \in {"lookup_var", "assign_var"}
     /\ BindingLevels(call.before, call.name) = {})
    => /\ fatal
       /\ chain = call.before

C13_Witness ==
    /\ fatal
    /\ call.op = "assign_var"
    /\ Len(chain) > 1
    /\ \E k \in 1..Len(chain) : chain[k] # <<>>


(***************************************************************************)
(* Properties of the constant pool.                                        *)
(***************************************************************************)
RECURSIVE LiteralsOfExpr(_)
RECURSIVE LiteralsOfStmt(_)
RECURSIVE LiteralsOfStmts(_, _)

\* the values of the literal nodes of an expression, left to right, depth
\* first; the target of an assignment is a name and holds none
LiteralsOfExpr(e) ==
    CASE e.type = "EXPR_LITERAL" -> <<atoi(e.value)>>
      [] e.type = "EXPR_BINARY" ->
           IF e.op = "=" THEN LiteralsOfExpr(e.right)
           ELSE LiteralsOfExpr(e.left) \o LiteralsOfExpr(e.right)
      [] OTHER -> <<>>

LiteralsOfStmts(ss, k) ==
    IF k > Len(ss) THEN <<>>
    ELSE LiteralsOfStmt(ss[k]) \o LiteralsOfStmts(ss, k + 1)

LiteralsOfStmt(st) ==
    CASE st.type = "STMT_LET" -> LiteralsOfExpr(st.initializer)
      [] st.type = "STMT_YAP" -> LiteralsOfExpr(st.expression)
      [] st.type = "STMT_EXPR" -> LiteralsOfExpr(st.expression)
      [] st.type = "STMT_IF" ->
           LiteralsOfExpr(st.condition) \o LiteralsOfStmt(st.then_branch)
           \o LiteralsOfStmt(st.else_branch)
      [] st.type = "STMT_WHILE" ->
           LiteralsOfExpr(st.condition) \o LiteralsOfStmt(st.body)
      [] st.type = "STMT_BLOCK" -> LiteralsOfStmts(st.statements, 1)
      [] OTHER -> <<>>

IsConst(in) == in.opcode = "BC_CONST"

\* C14: the constant pool of a compiled program has one slot per literal node
\* visited, in left-to-right depth-first order, equal values not sharing a
\* slot, and the i-th BC_CONST (from 0) has operand i; `yap(1 + 2);` gives the
\* pool [1, 2] and BC_CONST 0, BC_CONST 1, BC_ADD, BC_PRINT, BC_HALT
C14_OneSlotPerLiteral ==
    (origin = "compiled" /\ ~bytecode.exited) =>
        /\ bytecode.constants = LiteralsOfStmts(stmts, 1)
        /\ LET consts == SelectSeq(bytecode.instructions, IsConst)
           IN \A i \in 1..Len(consts) : consts[i].operand = i - 1
        /\ stmts = PrintBin("+", 1, 2) =>
              /\ bytecode.constants = <<1, 2>>
              /\ bytecode.instructions =
                   <<Instr("BC_CONST", 0), Instr("BC_CONST", 1), Instr("BC_ADD", 0),
                     Instr("BC_PRINT", 0), Instr("BC_HALT", 0)>>

\* yap(1 == 1); compiled: two slots holding the same value
C14_Witness ==
    /\ origin = "compiled"
    /\ status = "compiled"
    /\ stmts = PrintBin("==", 1, 1)
    /\ bytecode.constants = <<1, 1>>
    /\ bytecode.instructions[2] = Instr("BC_CONST", 1)

\* C15: every BC_CONST has, at the moment it is emitted and in the finished
\* program, an operand that is at least 0 and below the length of the
\* constant pool
C15_ConstOperandInPool ==
    origin = "compiled" =>
        /\ \A k \in 1..Len(bytecode.log) :
              (bytecode.log[k].event = "emit" /\ bytecode.log[k].opcode = "BC_CONST")
              => /\ bytecode.log[k].operand >= 0
                 /\ bytecode.log[k].operand < bytecode.log[k].const_count
        /\ \A k \in 1..Len(bytecode.instructions) :
              IsConst(bytecode.instructions[k])
              => /\ bytecode.instructions[k].operand >= 0
                 /\ bytecode.instructions[k].operand < Len(bytecode.constants)

\* the while program: its third literal is emitted as BC_CONST 2 when the
\* pool has three slots
C15_Witness ==
    /\ origin = "compiled"
    /\ stmts = WhileProg(MaxOperand)
    /\ \E k \in 1..Len(bytecode.log) :
          /\ bytecode.log[k].event = "emit"
          /\ bytecode.log[k].opcode = "BC_CONST"
          /\ bytecode.log[k].operand = 2
          /\ bytecode.log[k].const_count = 3


(***************************************************************************)
(* Properties of the operand stack.                                        *)
(***************************************************************************)
RECURSIVE NamesOfExpr(_)
RECURSIVE NamesOfStmt(_)

\* the names a program uses, as the VM sees them: the first character
NamesOfExpr(e) ==
    CASE e.type = "EXPR_VARIABLE" -> {<<e.name[1]>>}
      [] e.type = "EXPR_BINARY" -> NamesOfExpr(e.left) \cup NamesOfExpr(e.right)
      [] OTHER -> {}

NamesOfStmt(st) ==
    CASE st.type = "STMT_LET" -> {<<st.name[1]>>} \cup NamesOfExpr(st.initializer)
      [] st.type = "STMT_YAP" -> NamesOfExpr(st.expression)
      [] st.type = "STMT_EXPR" -> NamesOfExpr(st.expression)
      [] st.type = "STMT_IF" ->
           NamesOfExpr(st.condition) \cup NamesOfStmt(st.then_branch)
           \cup NamesOfStmt(st.else_branch)
      [] st.type = "STMT_WHILE" -> NamesOfExpr(st.condition) \cup NamesOfStmt(st.body)
      [] st.type = "STMT_BLOCK" ->
           UNION {NamesOfStmt(st.statements[k]) : k \in 1..Len(st.statements)}
      [] OTHER -> {}

NamesOf(ss) == UNION {NamesOfStmt(ss[k]) : k \in 1..Len(ss)}

\* the run in progress or ended is that of a compiled, parser-accepted
\* program started in a scope that binds every name it uses
CompiledRunWithNamesBound ==
    /\ origin = "compiled"
    /\ stmts \in Programs
    /\ status \in {"running", "halted", "exited", "crashed"}
    /\ err # "compile"
    /\ NamesOf(stmts) \subseteq {b[1] : b \in Bindings(env0)}

\* C16: in the run of a compiled program started in a scope that binds its
\* variables the stack pointer never drops below 0, so no instruction pops
\* from an empty stack, `yap(x = 5);` included
C16_NoUnderflow == CompiledRunWithNamesBound => sp >= 0

\* the number of values an instruction pops
Pops(opcode) ==
    CASE opcode \in ArithmeticOpcodes -> 2
      [] opcode \in {"BC_SET_VAR", "BC_DEFINE_VAR", "BC_PRINT", "BC_JUMP_IF_FALSE"} -> 1
      [] OTHER -> 0

C17_Step ==
    (/\ Fetching
     /\ InRange
     /\ \/ sp < Pops(instr.opcode)
        \/ instr.opcode \notin HandledOpcodes)
    => /\ status' = "exited"
       /\ err' # ""
       /\ sp' >= 0

\* C17: an instruction that needs more values than the stack holds, and an
\* opcode the VM does not implement, end the run with a reported error; the
\* run never goes on with a negative stack pointer
C17_FailFast == [][C17_Step]_vars

\* C18: the stack pointer never exceeds the stack size of 1024, so no push
\* writes past the stack, `while (1) { 1; }` included
C18_NoOverflow == sp <= STACK_SIZE


(***************************************************************************)
(* Lifetime of the VM's scope store, and failed compilations.              *)
(***************************************************************************)
\* C19 as stated: each call of run starts with a scope store holding no
\* bindings, so a binding made by one execution is not visible to a later one
C19_FreshScopePerRun == runs > 0 => FromEmptyScope

C19_Step ==
    /\ (status = "compiled" /\ status' = "running") =>
          /\ vm_env' = IF vm_env = <<>> THEN << <<>> >> ELSE vm_env
          /\ env0' = vm_env'
    /\ status' \in {"halted", "exited", "crashed"} => vm_env' = vm_env
    /\ status \in {"idle", "halted"} => vm_env' = vm_env

\* C19, amended: the scope store is created empty by the first call of run in
\* the process and kept from then on; every later call starts with the
\* bindings the earlier calls left, and the end of a run, and a compilation
\* between two runs, leave them in place
C19_ScopeStoreKept == [][C19_Step]_vars

\* a second run that starts with a binding of the first
C19_Witness ==
    /\ runs = 2
    /\ status = "running"
    /\ Bindings(env0) # {}

\* C20: a compilation that meets an unknown operator, an assignment target
\* that is not a variable, or an expression or statement tag it does not
\* handle, stops there and hands no program back, not even the part already
\* emitted: the process has exited and nothing is run
C20_NoPartialProgram ==
    /\ (origin = "compiled" /\ stmts \in MalformedTrees) =>
          /\ status = "exited"
          /\ err = "compile"
          /\ bytecode.exited
          /\ "BC_HALT" \notin {bytecode.instructions[k].opcode :
                                  k \in 1..Len(bytecode.instructions)}
    /\ (origin = "compiled" /\ status \in {"compiled", "running", "halted"}) =>
          ~bytecode.exited

\* yap(1); yap(1 % 2); stopped after the operands of %
C20_Witness ==
    /\ stmts = <<YapStmt(Num(1)), YapStmt(Binary(Num(1), "%", Num(2)))>>
    /\ status = "exited"
    /\ err = "compile"
    /\ Opcodes(bytecode) = <<"BC_CONST", "BC_PRINT", "BC_CONST", "BC_CONST">>


(***************************************************************************)
(* What the headers say of compile and run.                                *)
(***************************************************************************)
\* C21: a compilation that fails returns NULL to its caller, which reports
\* the error and goes on: the process has not ended
C21_FailureReturnsNull ==
    (origin = "compiled" /\ bytecode.exited) => status # "exited"

C22_Step ==
    /\ (Fetching /\ InRange /\ instr.opcode = "BC_LOAD_CONST"
        /\ instr.operand >= 0 /\ instr.operand < Len(bytecode.constants)
        /\ sp >= 0 /\ sp < STACK_SIZE)
       => /\ status' = "running"
          /\ sp' = sp + 1
          /\ stack' = Append(stack, bytecode.constants[instr.operand + 1])
          /\ ip' = ip + 1
    /\ (Fetching /\ InRange /\ instr.opcode = "BC_STORE_VAR"
        /\ sp >= 1 /\ sp <= STACK_SIZE
        /\ lookup_var(vm_env, <<Chr(instr.operand)>>).found)
       => /\ status' = "running"
          /\ sp' = sp - 1
          /\ vm_env' = assign_var(vm_env, <<Chr(instr.operand)>>, stack[sp]).env
          /\ ip' = ip + 1

\* C22: BC_LOAD_CONST is executed as BC_CONST is, and BC_STORE_VAR as
\* BC_SET_VAR is: the same push, the same pop and rebinding, and the run
\* goes on with the next instruction
C22_LegacyAliases == [][C22_Step]_vars

IsJumpAt(k) ==
    /\ k \in 0..(Count - 1)
    /\ bytecode.instructions[k + 1].opcode \in JumpOpcodes

\* C23: a BC_JUMP, or a BC_JUMP_IF_FALSE, whose operand lies outside the
\* instructions is never followed by a fetch outside [0, count)
C23_JumpTargetsValidated ==
    \A k \in 2..Len(executed) :
        (/\ IsJumpAt(executed[k - 1])
         /\ bytecode.instructions[executed[k - 1] + 1].operand \notin 0..(Count - 1))
        => executed[k] \in 0..(Count - 1)

C24_Step ==
    (/\ Fetching /\ InRange /\ instr.opcode = "BC_DIV"
     /\ sp >= 2 /\ sp <= STACK_SIZE
     /\ stack[sp] = 0
     /\ ~ub)
    => /\ ~ub'
       /\ status' # "crashed"

\* C24: BC_DIV with a right operand of 0 has an outcome the VM decides: the
\* host division by zero is not performed
C24_DivisionByZeroGuarded == [][C24_Step]_vars

C25_Step ==
    (status \in {"compiled", "running"} /\ ~ub') => bytecode' = bytecode

\* C25: run never modifies the program it executes: from the call to its
\* end the instructions, the constants and the counts stay what they were
\* (as long as no access outside the stack array has been made)
C25_ProgramReadOnly == [][C25_Step]_vars

\* the while program run to its BC_HALT: its back-patched jumps and its
\* constants were used, and it still is what compile returned
C25_Witness ==
    /\ origin = "compiled"
    /\ stmts = WhileProg(MaxOperand)
    /\ status = "halted"
    /\ ~ub
    /\ Len(executed) > Count
    /\ bytecode = compile(stmts)

\* C26: `let i = 0; while (i < 3) { yap(i); i = i + 1; }` compiled and run
\* from an empty scope emits the three outputs 0, 1, 2 and halts
C26_LetWhileOutput ==
    (origin = "compiled" /\ stmts = LetWhile /\ FromEmptyScope /\ Terminal)
    => /\ status = "halted"
       /\ out = <<0, 1, 2>>

\* C27: in the run of a compiled program every instruction fetch has
\* 0 <= ip < count, whatever path the jumps take
C27_FetchInRange ==
    (origin = "compiled" /\ status \in {"running", "halted", "crashed"}) =>
        /\ \A k \in 1..Len(executed) : executed[k] \in 0..(Count - 1)
        /\ status = "running" => InRange

\* the while program run to its BC_HALT, through the forward and the
\* backward jump
C27_Witness ==
    /\ origin = "compiled"
    /\ stmts = WhileProg(MaxOperand)
    /\ status = "halted"
    /\ Len(executed) > Count
    /\ executed[Len(executed)] = Count - 1

C28_Step ==
    (Fetching /\ InRange /\ instr.opcode = "BC_JUMP_IF_FALSE") =>
        /\ sp' = sp - 1
        /\ (sp >= 1 /\ sp <= STACK_SIZE) =>
              /\ stack' = SubSeq(stack, 1, sp - 1)
              /\ stack[sp] = 0 => ip' = instr.operand
              /\ stack[sp] # 0 => ip' = ip + 1

\* C28: BC_JUMP_IF_FALSE pops exactly one value, sets ip to its operand when
\* that value is 0, and goes on with the next instruction for every other
\* value, positive or negative
C28_JumpIfFalse == [][C28_Step]_vars

\* if (0 - 1) { yap(10); } else { yap(20); } yap(30); after the conditional
\* jump has popped -1: the then-branch is next
C28_Witness ==
    /\ origin = "compiled"
    /\ stmts = IfProg(Binary(Num(0), "-", Num(1)), TRUE)
    /\ status = "running"
    /\ executed = <<0, 1, 2, 3>>
    /\ ip = 4
    /\ sp = 0


(***************************************************************************)
(* Layout of the code of if and while statements.                          *)
(***************************************************************************)
RECURSIVE ExprLen(_)
RECURSIVE StmtLen(_)
RECURSIVE StmtsLen(_, _)
RECURSIVE NodesOfStmt(_, _)
RECURSIVE NodesOfStmts(_, _, _)

\* the number of instructions of an expression and of a statement
ExprLen(e) ==
    CASE e.type = "EXPR_BINARY" ->
           IF e.op = "=" THEN ExprLen(e.right) + 1
           ELSE ExprLen(e.left) + ExprLen(e.right) + 1
      [] OTHER -> 1

StmtsLen(ss, k) ==
    IF k > Len(ss) THEN 0 ELSE StmtLen(ss[k]) + StmtsLen(ss, k + 1)

StmtLen(st) ==
    CASE st.type = "STMT_LET" -> ExprLen(st.initializer) + 1
      [] st.type = "STMT_YAP" -> ExprLen(st.expression) + 1
      [] st.type = "STMT_EXPR" -> ExprLen(st.expression)
      [] st.type = "STMT_IF" ->
           ExprLen(st.condition) + 1 + StmtLen(st.then_branch)
           + (IF st.else_branch.type = "NULL" THEN 0 ELSE 1 + StmtLen(st.else_branch))
      [] st.type = "STMT_WHILE" -> ExprLen(st.condition) + 1 + StmtLen(st.body) + 1
      [] st.type = "STMT_BLOCK" -> StmtsLen(st.statements, 1)
      [] OTHER -> 0

\* every statement of the tree with the index of its first instruction
NodesOfStmts(ss, k, start) ==
    IF k > Len(ss) THEN {}
    ELSE NodesOfStmt(ss[k], start) \cup NodesOfStmts(ss, k + 1, start + StmtLen(ss[k]))

NodesOfStmt(st, start) ==
    {[stmt |-> st, start |-> start]} \cup
    CASE st.type = "STMT_IF" ->
           NodesOfStmt(st.then_branch, start + ExprLen(st.condition) + 1)
           \cup (IF st.else_branch.type = "NULL" THEN {}
                 ELSE NodesOfStmt(st.else_branch,
                                  start + ExprLen(st.condition) + 1
                                  + StmtLen(st.then_branch) + 1))
      [] st.type = "STMT_WHILE" ->
           NodesOfStmt(st.body, start + ExprLen(st.condition) + 1)
      [] st.type = "STMT_BLOCK" -> NodesOfStmts(st.statements, 1, start)
      [] OTHER -> {}

IfNodes == {n \in NodesOfStmts(stmts, 1, 0) : n.stmt.type = "STMT_IF"}

WhileNodes == {n \in NodesOfStmts(stmts, 1, 0) : n.stmt.type = "STMT_WHILE"}

\* the instruction at an index counted from 0
At(k) == bytecode.instructions[k + 1]

IsJump(in) == in.opcode = "BC_JUMP"

CompiledProgram ==
    /\ origin = "compiled"
    /\ ~bytecode.exited
    /\ stmts \in Programs

\* C29: in the code of an if the BC_JUMP_IF_FALSE operand is the index of the
\* first instruction of the else-branch, just after the BC_JUMP, when there
\* is an else, and the index just after the then-branch when there is none; a
\* BC_JUMP is emitted only when there is an else, and its operand is the index
\* just after the else-branch
C29_IfJumps ==
    CompiledProgram =>
        /\ \A n \in IfNodes :
              LET jif == n.start + ExprLen(n.stmt.condition)
                  after_then == jif + 1 + StmtLen(n.stmt.then_branch)
              IN /\ At(jif).opcode = "BC_JUMP_IF_FALSE"
                 /\ IF n.stmt.else_branch.type = "NULL"
                    THEN At(jif).operand = after_then
                    ELSE /\ At(after_then) =
                              Instr("BC_JUMP", after_then + 1
                                               + StmtLen(n.stmt.else_branch))
                         /\ At(jif).operand = after_then + 1
        /\ Len(SelectSeq(bytecode.instructions, IsJump)) =
              Cardinality({n \in IfNodes : n.stmt.else_branch.type # "NULL"})
              + Cardinality(WhileNodes)

\* the nested ifs compiled: the outer conditional jump lands after the
\* BC_JUMP of the outer if, on the first instruction of the else-branch
C29_Witness ==
    /\ origin = "compiled"
    /\ status = "compiled"
    /\ stmts = NestedIfs
    /\ At(1) = Instr("BC_JUMP_IF_FALSE", 10)
    /\ At(9) = Instr("BC_JUMP", 14)

\* C30: in the code of a while the closing BC_JUMP operand is the index of the
\* first instruction of the condition, and the BC_JUMP_IF_FALSE operand the
\* index just after the closing BC_JUMP, for nested loops and for loops inside
\* if branches as well
C30_WhileJumps ==
    CompiledProgram =>
        \A n \in WhileNodes :
            LET jump_out == n.start + ExprLen(n.stmt.condition)
                closing == jump_out + 1 + StmtLen(n.stmt.body)
            IN /\ At(closing) = Instr("BC_JUMP", n.start)
               /\ At(jump_out) = Instr("BC_JUMP_IF_FALSE", closing + 1)

\* the nested loops compiled: the inner loop starts at 4 and its closing
\* jump is at 12
C30_Witness ==
    /\ origin = "compiled"
    /\ status = "compiled"
    /\ stmts = NestedLoops
    /\ Cardinality(WhileNodes) = 2
    /\ At(12) = Instr("BC_JUMP", 4)
    /\ At(7) = Instr("BC_JUMP_IF_FALSE", 13)

\* C31: every complete statement leaves the operand stack as deep as it found
\* it, expression statements that are not assignments included, so the stack
\* is empty when a compiled program reaches BC_HALT
C31_StackEmptyAtHalt ==
    (CompiledProgram /\ status = "halted" /\ ~ub) => sp = 0

\* the programs made of one assignment statement
AssignmentPrograms ==
    {p \in Programs : /\ Len(p) = 1
                      /\ p[1].type = "STMT_EXPR"
                      /\ p[1].expression.type = "EXPR_BINARY"
                      /\ p[1].expression.op = "="}

\* C32: the code of `v = e` is the code of e followed by one BC_SET_VAR of v,
\* with no load of v for the left side; run with the names bound, the binding
\* of v takes the value of e and no other binding changes
C32_Assignment ==
    (CompiledProgram /\ stmts \in AssignmentPrograms) =>
        LET v == stmts[1].expression.left.name
            e == stmts[1].expression.right
            alone == compile(<<ExprStmt(e)>>)
            n == Len(alone.instructions) - 1
        IN /\ Count = n + 2
           /\ SubSeq(bytecode.instructions, 1, n) = SubSeq(alone.instructions, 1, n)
           /\ bytecode.constants = alone.constants
           /\ At(n) = Instr("BC_SET_VAR", Ascii[v[1]])
           /\ At(n + 1) = Instr("BC_HALT", 0)
           /\ (status = "halted" /\ NamesOf(stmts) \subseteq BoundNames(env0)) =>
                 Bindings(vm_env) = Rebound(env0, v, eval_expr(env0, e).value)

\* `x = i * 2;` run where x is 1 and i is 2: x becomes 4 and i stays 2
C32_Witness ==
    /\ origin = "compiled"
    /\ stmts = AssignProg(X, Binary(Variable(I), "*", Num(2)))
    /\ status = "halted"
    /\ Bindings(env0) = {<<X, 1>>, <<I, 2>>}
    /\ Bindings(vm_env) = {<<X, 4>>, <<I, 2>>}
    /\ bytecode.instructions =
         <<Instr("BC_LOAD_VAR", Ascii["i"]), Instr("BC_CONST", 0), Instr("BC_MUL", 0),
           Instr("BC_SET_VAR", Ascii["x"]), Instr("BC_HALT", 0)>>

\* what C33 asks of one step
C33_Step ==
    /\ (status = "halted" /\ status' # "compiled") =>
          /\ executed' = executed
          /\ ip' = ip
          /\ out' = out
          /\ vm_env' = vm_env
    /\ (status = "running" /\ status' = "halted") =>
          /\ InRange
          /\ instr.opcode = "BC_HALT"
          /\ executed' = Append(executed, ip)
          /\ out' = out
          /\ vm_env' = vm_env

\* C33: once BC_HALT is fetched the run is over: until another program is
\* handed to the VM no instruction executes, nothing is output and no binding
\* changes; and a run ends without a fatal error only by executing BC_HALT
C33_HaltEndsRun == [][C33_Step]_vars

\* the run of BC_CONST 0; BC_PRINT; BC_HALT followed by four more
\* instructions: it stopped at the first BC_HALT with the one output
C33_Witness ==
    /\ origin = "hand"
    /\ status = "halted"
    /\ Count = 7
    /\ executed = <<0, 1, 2>>
    /\ ip = 3
    /\ At(ip).opcode = "BC_CONST"
    /\ out = <<7>>

\* the statements with every block at the top level replaced by its children
RECURSIVE Flatten(_)
Flatten(ss) ==
    IF ss = <<>> THEN <<>>
    ELSE IF Head(ss).type = "STMT_BLOCK"
         THEN Flatten(Head(ss).statements) \o Flatten(Tail(ss))
         ELSE <<Head(ss)>> \o Flatten(Tail(ss))

\* the code of a program is the code of its statements with the blocks opened
BlockCodeIsChildrenCode ==
    CompiledProgram =>
        /\ bytecode.instructions = compile(Flatten(stmts)).instructions
        /\ bytecode.constants = compile(Flatten(stmts)).constants

\* C34: a block compiles to the concatenation of the code of its children,
\* with no instruction and no scope level of its own: a binding created
\* inside a block is visible after the block with its last value
C34_BlockTransparent ==
    /\ BlockCodeIsChildrenCode
    /\ (origin = "compiled" /\ stmts = BlockLet /\ FromEmptyScope /\ Terminal) =>
          /\ status = "halted"
          /\ out = <<2>>
          /\ Bindings(vm_env) = {<<X, 2>>}

\* the operands of the variable instructions of the program
VariableOperands ==
    {bytecode.instructions[k].operand :
        k \in {j \in 1..Count : bytecode.instructions[j].opcode
                                  \in {"BC_LOAD_VAR", "BC_SET_VAR", "BC_DEFINE_VAR"}}}

\* C35: an identifier is encoded by its first character alone, so that two
\* names with the same first character address one binding: in
\* `foo = 7; yap(fab);` the store through foo is what the load through fab
\* reads
C35_FirstCharacter ==
    /\ CompiledProgram =>
          VariableOperands = {Ascii[n[1]] : n \in NamesOf(stmts)}
    /\ (origin = "compiled" /\ stmts = FooFab /\ status = "halted") =>
          /\ out = <<7>>
          /\ Cardinality(Bindings(vm_env)) = Cardinality(Bindings(env0))
          /\ Bindings(vm_env) = Rebound(env0, <<"f">>, 7)

\* `foo = 7; yap(fab);` run where f is bound to 1: both instructions carry
\* 'f' and 7 is printed
C35_Witness ==
    /\ origin = "compiled"
    /\ stmts = FooFab
    /\ status = "halted"
    /\ Bindings(env0) = {<<<<"f">>, 1>>}
    /\ At(1) = Instr("BC_SET_VAR", Ascii["f"])
    /\ At(2) = Instr("BC_LOAD_VAR", Ascii["f"])
    /\ out = <<7>>

\* C36: define_var changes no ancestor scope, even one that binds the same
\* name, and no other entry of the scope it is given; assign_var on a name
\* bound in the scope it is given changes that binding alone; lookup_var
\* changes no scope
C36_ScopeFrame ==
    /\ call.op = "define_var" =>
          /\ Tail(chain) = Tail(call.before)
          /\ \A i \in 1..Len(call.before[1]) :
                call.before[1][i].name # call.name => chain[1][i] = call.before[1][i]
          /\ \E i \in 1..Len(chain[1]) :
                chain[1][i] = [name |-> call.name, value |-> call.value]
    /\ (call.op = "assign_var" /\ EntriesNamed(call.before[1], call.name) # {}) =>
          /\ ~fatal
          /\ chain = [call.before EXCEPT ![1] = Rebind(@, call.name, call.value)]
    /\ call.op = "lookup_var" => chain = call.before

\* a name bound to one value in the parent is defined with another value in
\* the child: the parent keeps its binding
C36_Witness ==
    /\ call.op = "define_var"
    /\ Len(chain) = 2
    /\ EntriesNamed(call.before[1], call.name) = {}
    /\ \E i \in EntriesNamed(chain[2], call.name) : chain[2][i].value # call.value
    /\ \E i \in EntriesNamed(chain[1], call.name) : chain[1][i].value = call.value
    /\ chain[2] = call.before[2]

\* the positions in the log of the writes of one kind
Events(kind) == {k \in 1..Len(bytecode.log) : bytecode.log[k].event = kind}

\* the patches of the instruction at an index
PatchesOf(i) == {k \in Events("patch") : bytecode.log[k].index = i}

\* every write appends: the n-th instruction emitted goes to index n - 1, and
\* so does the n-th constant
AppendOnly(kind) ==
    \A k \in Events(kind) :
        bytecode.log[k].index = Cardinality({j \in Events(kind) : j < k})

\* C37: during compilation an instruction, once emitted, keeps its place and
\* its opcode, and a constant, once appended, keeps its value; the one later
\* write is the operand of a jump emitted with the placeholder 0, written once
\* before compile returns
C37_WriteOnce ==
    CompiledProgram =>
        /\ AppendOnly("emit")
        /\ AppendOnly("constant")
        /\ Count = Cardinality(Events("emit"))
        /\ Len(bytecode.constants) = Cardinality(Events("constant"))
        /\ \A k \in Events("constant") :
              bytecode.constants[bytecode.log[k].index + 1] = bytecode.log[k].operand
        /\ \A k \in Events("emit") :
              LET e == bytecode.log[k]
              IN /\ At(e.index).opcode = e.opcode
                 /\ PatchesOf(e.index) = {} => At(e.index).operand = e.operand
                 /\ PatchesOf(e.index) # {} =>
                       /\ e.opcode \in JumpOpcodes
                       /\ e.operand = 0
                       /\ Cardinality(PatchesOf(e.index)) = 1
                       /\ \A j \in PatchesOf(e.index) :
                             /\ j > k
                             /\ At(e.index).operand = bytecode.log[j].operand
                 /\ e.opcode = "BC_JUMP_IF_FALSE" => PatchesOf(e.index) # {}
        /\ Cardinality({k \in Events("patch") : bytecode.log[k].opcode = "BC_JUMP"})
              = Cardinality({n \in IfNodes : n.stmt.else_branch # NULL})

\* the nested ifs compiled: five placeholders were emitted, three conditional
\* jumps and two jumps over an else, and five patches made, one for each
C37_Witness ==
    /\ origin = "compiled"
    /\ status = "compiled"
    /\ stmts = NestedIfs
    /\ Cardinality(Events("patch")) = 5
    /\ Cardinality({PatchesOf(i) : i \in 0..Count - 1} \ {{}}) = 5
    /\ Events("constant") # {}

\* the indices of the jumps that close the while loops of the program
ClosingIndices ==
    {n.start + ExprLen(n.stmt.condition) + 1 + StmtLen(n.stmt.body) : n \in WhileNodes}

\* C38: in a finished program every BC_JUMP_IF_FALSE jumps forward, its
\* operand above its own index, and a BC_JUMP whose operand is not above its
\* own index is the jump that closes a while loop
C38_JumpDirections ==
    CompiledProgram =>
        \A k \in 0..Count - 1 :
            /\ At(k).opcode = "BC_JUMP_IF_FALSE" => At(k).operand > k
            /\ (At(k).opcode = "BC_JUMP" /\ At(k).operand <= k) => k \in ClosingIndices

\* the nested loops compiled: the two conditional jumps go forward and the
\* two closing jumps backward
C38_Witness ==
    /\ origin = "compiled"
    /\ status = "compiled"
    /\ stmts = NestedLoops
    /\ ClosingIndices = {12, 17}
    /\ At(3) = Instr("BC_JUMP_IF_FALSE", 18)
    /\ At(7) = Instr("BC_JUMP_IF_FALSE", 13)
    /\ At(12) = Instr("BC_JUMP", 4)
    /\ At(17) = Instr("BC_JUMP", 0)

\* the run of a compiled program that has no while statement
RunWithoutWhile ==
    /\ CompiledProgram
    /\ WhileNodes = {}
    /\ status = "running"

C39_Step ==
    (RunWithoutWhile /\ executed' # executed) =>
        /\ ip' > ip
        /\ Len(executed') <= Count

\* C39: the run of a compiled program with no while statement terminates: the
\* instruction pointer grows at every step, so that after at most count
\* instructions the run has ended, at BC_HALT or in a fatal error
C39_TerminatesWithoutWhile ==
    /\ [][C39_Step]_vars
    /\ RunWithoutWhile ~> Terminal

\* the nested ifs run to BC_HALT, two jumps taken: fewer instructions were
\* executed than the program has
C39_Witness ==
    /\ origin = "compiled"
    /\ stmts = NestedIfs
    /\ status = "halted"
    /\ WhileNodes = {}
    /\ Len(executed) > 4
    /\ Len(executed) < Count
    /\ \A k \in 1..Len(executed) - 1 : executed[k] < executed[k + 1]

\* C40: whatever sequence of define_var calls is made on a scope, the number
\* of its entries stays within the 128 the entries array holds
C40_WithinCapacity ==
    \A k \in 1..Len(chain) : Len(chain[k]) <= ENV_CAPACITY

====
